---- MODULE Spec2Model ----
(***************************************************************************)
(* A model of the renderers of "four": the Compiled resource cache         *)
(* (_utils.ts), the WebGL and WebGPU renderers' resource lifecycle,        *)
(* pipeline cache, std140 uniform packer and render-list sort.             *)
(***************************************************************************)
EXTENDS Integers, Sequences, FiniteSets, TLC

(***************************************************************************)
(* Bounds of the model.                                                    *)
(***************************************************************************)
NumObjs == 1            \* objects of the cache-only specification
MaxHandles == 3         \* handles the cache-only specification creates
MaxDisposeCalls == 2    \* dispose() calls per object
NumRTs == 1             \* render targets
MaxTargetHandles == 5   \* handles the render-target specification creates
MaxCompileHandles == 5  \* handles the WebGL compile specification creates
MaxUniforms == 3        \* uniform values in a list handed to std140
MaxSortMeshes == 4      \* meshes in the scene handed to sort
MaxDepth == 2           \* projected depths 1 (nearest) .. MaxDepth (farthest)
MaxPlacedMeshes == 3    \* meshes in the scene of the perspective camera
MaxVertices == 4        \* vertices of a geometry's position data
MaxRenderHandles == 7   \* handles the WebGL frame specification creates
MaxGPUTargetHandles == 8 \* handles the WebGPU render target specification creates
MaxBindHandles == 12    \* handles the WebGPU bind group specification creates
MaxStageHandles == 8    \* handles the stage specification creates
MaxTextureHandles == 8  \* handles the WebGL texture specification creates
MaxMaterialHandles == 7 \* handles the WebGPU material specification creates
MaxGeometryHandles == 9 \* handles created while geometries are exchanged
MaxProgramHandles == 5  \* handles created while the WebGL mesh is given other materials
MaxOffscreenHandles == 16 \* handles the frames into a render target create
MaxFrameHandles == 9    \* handles the WebGPU frame specification creates
MaxPipelineHandles == 9  \* handles the WebGPU pipeline specification creates
MaxUniformHandles == 7  \* handles the WebGPU uniform-buffer specification creates
MaxVersion == 2         \* versions of a material's uniform values

(***************************************************************************)
(* CPU-side objects are tagged identities; a Compiled cache is a WeakMap   *)
(* from object identity to a value.  An absent entry is <<>> and a present *)
(* entry with value v is <<v>>.                                            *)
(***************************************************************************)
Objs == {<<"obj", i>> : i \in 1..NumObjs}
GenCaches == {"A", "B"}

\* RenderTarget: `count` color textures sharing the target's sampler.
RTs == {<<"rt", i>> : i \in 1..NumRTs}
RTCount == 1
Texs == {<<"tex", i>> : i \in 1..(NumRTs * RTCount)}
Samplers == {<<"sampler", i>> : i \in 1..NumRTs}
TexturesOf(rt) == [k \in 1..RTCount |-> <<"tex", (rt[2] - 1) * RTCount + k>>]
SamplerOfRT(rt) == <<"sampler", rt[2]>>
SamplerOf(tex) == <<"sampler", ((tex[2] - 1) \div RTCount) + 1>>

\* The scene's drawables: mesh i is constructed with geometry i and material i.
\* Geometry 1 has a position and an index attribute, geometry 2 a position.
Meshes == {<<"mesh", 1>>, <<"mesh", 2>>}
Scene == <<"scene", 1>>
Nodes == {Scene} \cup Meshes
Geoms == {<<"geometry", 1>>, <<"geometry", 2>>}
Mats == {<<"material", 1>>, <<"material", 2>>}
Attrs == {<<"attribute", 1>>, <<"attribute", 2>>, <<"attribute", 3>>}
Attr(key, a) == [key |-> key, attr |-> <<"attribute", a>>]

\* texture.image: no image yet ("none", undefined), an image that is there
\* (an ImageBitmap or a canvas), or an HTMLVideoElement.
ImageSources == {"none", "bitmap", "video"}

Objects == Objs \cup RTs \cup Texs \cup Samplers \cup Meshes \cup Geoms \cup Mats \cup Attrs
RendererCaches ==
  {"_FBOs", "_textures", "_samplers", "_compiled", "_programs", "_geometry", "_buffers",
   "_UBOs", "_pipelines"}
CacheNames == GenCaches \cup RendererCaches

VARIABLES
  caches,      \* [CacheNames -> [Objects -> <<>> or <<value>>]]: the Compiled instances
  dispose,     \* [Objects -> Seq(wrapper)]: each object's current dispose function
  made,        \* Seq(record): the backend handles created so far; handle h is made[h]
  released,    \* Seq(Nat): released[h] is how often the backend released handle h
  content,     \* Seq(data): content[h] is the data of array or buffer h, else <<>>
  disposed,    \* [Objects -> Nat]: how often the caller called object.dispose()
  needsUpdate, \* [Objects -> BOOLEAN]: the needsUpdate flag of targets, textures,
               \* samplers and attributes
  calls,       \* the backend and cache calls of the last operation, in order
  geometry,    \* [Meshes -> Geoms]: mesh.geometry
  material,    \* [Meshes -> Mats]: mesh.material
  attributes,  \* [Geoms -> Seq([key, attr])]: geometry.attributes, in key order
  values,      \* std140 alone: the uniform list handed to std140
  packed,      \* std140 alone: <<>> or <<what the last std140(values) call did>>
  nodes,       \* sort: the visible meshes of the scene, in traversal order
  renderList,  \* sort: <<>> or <<[camera, list]>>, the last sort() call and its result
  flags,       \* [Mats -> record]: the materials' render state
  shader,      \* [Mats -> ShaderSources]: the materials' shader source
  uniforms,    \* [Mats -> 1..MaxVersion]: the version of material.uniforms' values
  parent,      \* [Meshes -> Nodes]: the scene graph, node.parent
  visible,     \* [Nodes -> BOOLEAN]: node.visible
  frustumCulled, \* [Meshes -> BOOLEAN]: mesh.frustumCulled
  matrix,      \* [Meshes -> Int]: the x translation of the world matrix, matrix[12]
  scale,       \* [Meshes -> Seq(Int)]: mesh.scale
  vertices,    \* [Geoms -> Seq(vertex)]: the vertices of the position attribute
  tested,      \* <<>> or <<the last Frustum.contains call and what it computed>>
  glsl,        \* [Mats -> {"valid", "invalid"}]: whether the GLSL sources compile
  compute,     \* [Mats -> BOOLEAN]: the material has a compute stage only
  autoClear,   \* BOOLEAN: renderer.autoClear
  position,    \* [Nodes -> Int]: the x component of node.position
  matrixAutoUpdate, \* [Nodes -> BOOLEAN]: node.matrixAutoUpdate
  transform,   \* [Nodes -> [s, t]]: node.matrix along the x axis, the scale
               \* matrix[0] and the translation matrix[12]
  drawRange,   \* [Geoms -> [start, count]]: geometry.drawRange; the count is
               \* <<>> for Infinity and <<n>> for the number n
  textureUniforms, \* [Mats -> Seq(Texs)]: the values of material.uniforms that
               \* are textures, in key order
  fragment,    \* [Mats -> FragmentSources]: material.fragment, where shader
               \* is material.vertex (material.compute of a compute material)
  image,       \* [Texs -> ImageSources]: texture.image
  samples,     \* renderer.samples of the WebGPU renderer
  glState      \* the state of the WebGL context: the DEPTH_TEST, CULL_FACE and
               \* BLEND capabilities, the depth mask and the culled face

heapVars == <<caches, dispose, made, released, content, disposed, needsUpdate, calls, glState, samples>>
sceneVars == <<geometry, material, attributes>>
packVars == <<values, packed>>
sortVars == <<nodes, renderList>>
gpuVars == <<flags, shader, uniforms>>
treeVars == <<parent, visible, frustumCulled, matrix, scale, vertices, tested>>
stageVars == <<glsl, compute>>
passVars == <<autoClear, position, matrixAutoUpdate, transform, drawRange, textureUniforms>>
frameVars == <<fragment, image>>
vars == <<heapVars, sceneVars, packVars, sortVars, gpuVars, treeVars, stageVars, passVars, frameVars>>

\* The mutable heap an operation works on; `calls` starts empty.
Heap ==
  [caches |-> caches, dispose |-> dispose, made |-> made, released |-> released,
   content |-> content, needsUpdate |-> needsUpdate, calls |-> <<>>, gl |-> glState,
   samples |-> samples, colorAttachments |-> 1]

Ev(e, c, o, h) == [ev |-> e, c |-> c, o |-> o, h |-> h]

NoObj == <<"", 0>>

\* renderer.samples, as constructed
Samples == 4

\* WeakMap.get on the current state, and on a heap inside an operation.
Get(c, o) == caches[c][o]
GetIn(st, c, o) == st.caches[c][o]

\* backend create*(): a fresh handle, Len(made) after the call. The record
\* keeps what the handle was made for, and the label or descriptor it was
\* made with.
CreateLabeled(st, kind, c, o, disp, label) ==
  [st EXCEPT !.made = Append(@, [kind |-> kind, c |-> c, o |-> o, disp |-> disp,
                                 epoch |-> disposed[o], label |-> label]),
             !.released = Append(@, 0),
             !.content = Append(@, <<>>),
             !.calls = Append(@, Ev("create", kind, o, Len(st.made) + 1))]

Create(st, kind, c, o, disp) == CreateLabeled(st, kind, c, o, disp, <<>>)
Last(st) == Len(st.made)

Call(st, e, o, h) == [st EXCEPT !.calls = Append(@, Ev(e, "", o, h))]

\* this.delete(object)
CacheDelete(st, c, o) ==
  [st EXCEPT !.caches[c][o] = <<>>,
             !.calls = Append(@, Ev("delete", c, o, 0))]

\* backend delete*(h) or h.destroy()
Release(st, h) ==
  [st EXCEPT !.released[h] = @ + 1,
             !.calls = Append(@, Ev("release", "", NoObj, h))]

\* A disposer closure handed to Compiled.set: () => backend.delete(h)
ReleaseFn(h) == [kind |-> "release", h |-> h, o |-> NoObj]

\* () => target.destroy?.() of a target without destroy (an external
\* texture)
NoDestroyFn == [kind |-> "none", h |-> 0, o |-> NoObj]

\* The closure WebGPURenderer.compile registers on a geometry; it captures
\* the mesh.
GPUGeometryFn(mesh) == [kind |-> "gpuGeometry", h |-> 0, o |-> mesh]

\* The closure WebGPURenderer.compile registers on a material; it captures
\* the mesh and the uniform buffer.
GPUUniformFn(mesh, buffer) == [kind |-> "gpuUBO", h |-> buffer, o |-> mesh]

\* The loop of the geometry closure over the attributes.
RECURSIVE GPUDestroyAttributes(_, _)
GPUDestroyAttributes(st, attrs) ==
  IF attrs = <<>>
    THEN st
    ELSE LET attribute == Head(attrs).attr
             buffer == GetIn(st, "_buffers", attribute)
             s1 == IF buffer /= <<>> THEN Release(st, buffer[1]) ELSE st
             s2 == CacheDelete(s1, "_buffers", attribute)
         IN  GPUDestroyAttributes([s2 EXCEPT !.needsUpdate[attribute] = TRUE], Tail(attrs))

\* Running a disposer closure.
RunClosure(st, fn) ==
  CASE fn.kind = "release" -> Release(st, fn.h)
    [] fn.kind = "gpuGeometry" -> GPUDestroyAttributes(st, attributes[geometry[fn.o]])
    [] fn.kind = "gpuUBO" -> Release(CacheDelete(st, "_UBOs", fn.o), fn.h)
    [] fn.kind = "none" -> st

\* super.set, mutated: the entry is not stored.
WeakMapSetDropped(st, c, o, v) == st

\* super.set(object, compiled)
WeakMapSet(st, c, o, v) == [st EXCEPT !.caches[c][o] = <<v>>]

\* Compiled.set, mutated: the new wrapper is put under the earlier ones.
CompiledSetInner(st, c, o, v, disposer) ==
  LET s1 == WeakMapSet(st, c, o, v)
  IN  IF disposer /= <<>>
        THEN [s1 EXCEPT !.dispose[o] = @ \o <<[cache |-> c, fn |-> disposer[1]]>>]
        ELSE s1

\* Compiled.set(object, compiled, dispose?): disposer is <<>> or <<closure>>.
\* With a disposer, object.dispose becomes a wrapper that remembers the
\* previous dispose function (prevDispose) and the cache (this).
CompiledSet(st, c, o, v, disposer) ==
  LET s1 == WeakMapSet(st, c, o, v)
  IN  IF disposer /= <<>>
        THEN [s1 EXCEPT !.dispose[o] = <<[cache |-> c, fn |-> disposer[1]]>> \o @]
        ELSE s1

\* The dispose() of the object's class: "Implemented by renderer", a no-op.
OrigDispose(st, o) == [st EXCEPT !.calls = Append(@, Ev("orig", "", o, 0))]

\* object.dispose = prevDispose, mutated: the wrapper stays installed.
RestoreDisposeKept(st, o, prev) == st

\* object.dispose = prevDispose
RestoreDispose(st, o, prev) == [st EXCEPT !.dispose[o] = prev]

\* Calling the function value fnChain as o.dispose(): a wrapper installed by
\* Compiled.set runs its disposer, restores and calls the previous dispose,
\* then deletes the object from its cache.
RECURSIVE CallDispose(_, _, _)
CallDispose(st, o, fnChain) ==
  IF fnChain = <<>>
    THEN OrigDispose(st, o)
    ELSE LET w  == Head(fnChain)
             s1 == RunClosure(st, w.fn)
             s2 == RestoreDispose(s1, o, Tail(fnChain))
             s3 == CallDispose(s2, o, Tail(fnChain))
         IN  CacheDelete(s3, w.cache, o)

\* The state after an operation that left the heap as st.
Commit(st) ==
  /\ caches' = st.caches
  /\ dispose' = st.dispose
  /\ made' = st.made
  /\ released' = st.released
  /\ content' = st.content
  /\ needsUpdate' = st.needsUpdate
  /\ calls' = st.calls
  /\ glState' = st.gl
  /\ samples' = st.samples

\* object.dispose() called by the application.
Dispose(o) ==
  /\ disposed[o] < MaxDisposeCalls
  /\ disposed' = [disposed EXCEPT ![o] = @ + 1]
  /\ Commit(CallDispose(Heap, o, dispose[o]))
  /\ UNCHANGED <<sceneVars, packVars, sortVars, gpuVars, treeVars, stageVars, passVars, frameVars>>

-----------------------------------------------------------------------------
(***************************************************************************)
(* The cache by itself: a caller that creates handles and registers them   *)
(* in caches A and B, with or without a disposer, and disposes objects.    *)
(***************************************************************************)
\* new Material(): side 'front', transparent false, depthTest and depthWrite
\* true, no blending.
DefaultFlags ==
  [transparent |-> FALSE, side |-> "front", depthWrite |-> TRUE, depthTest |-> TRUE,
   blending |-> "undefined"]

Init ==
  /\ caches = [c \in CacheNames |-> [o \in Objects |-> <<>>]]
  /\ dispose = [o \in Objects |-> <<>>]
  /\ made = <<>>
  /\ released = <<>>
  /\ content = <<>>
  /\ disposed = [o \in Objects |-> 0]
  /\ needsUpdate = [o \in Objects |-> o \in RTs \cup Texs \cup Samplers \cup Attrs]
  /\ geometry = [m \in Meshes |-> <<"geometry", m[2]>>]
  /\ material = [m \in Meshes |-> <<"material", m[2]>>]
  /\ attributes = [g \in Geoms |-> IF g[2] = 1 THEN <<Attr("position", 1), Attr("index", 2)>>
                                               ELSE <<Attr("position", 3)>>]
  /\ values = <<>>
  /\ packed = <<>>
  /\ nodes = <<>>
  /\ renderList = <<>>
  /\ calls = <<>>
  /\ flags = [m \in Mats |-> DefaultFlags]
  /\ shader = [m \in Mats |-> "s1"]
  /\ uniforms = [m \in Mats |-> 1]
  /\ parent = [m \in Meshes |-> Scene]
  /\ visible = [n \in Nodes |-> TRUE]
  /\ frustumCulled = [m \in Meshes |-> TRUE]
  /\ matrix = [m \in Meshes |-> 0]
  /\ scale = [m \in Meshes |-> <<1, 1, 1>>]
  /\ vertices = [g \in Geoms |-> << <<3, 0, 0>> >>]
  /\ tested = <<>>
  /\ glsl = [m \in Mats |-> "valid"]
  /\ compute = [m \in Mats |-> FALSE]
  /\ autoClear = TRUE
  /\ position = [n \in Nodes |-> 0]
  /\ matrixAutoUpdate = [n \in Nodes |-> TRUE]
  /\ transform = [n \in Nodes |-> [s |-> 1, t |-> 0]]
  /\ drawRange = [g \in Geoms |-> [start |-> 0, count |-> <<>>]]
  /\ textureUniforms = [m \in Mats |-> <<>>]
  /\ fragment = [m \in Mats |-> "none"]
  /\ image = [t \in Texs |-> "none"]
  /\ samples = Samples
  /\ glState = [DEPTH_TEST |-> FALSE, CULL_FACE |-> FALSE, BLEND |-> FALSE,
                depthMask |-> TRUE, cullFace |-> "back"]

\* handle = backend.create(); cache.set(object, handle[, () => backend.delete(handle)])
CacheSet(c, o, withDisposer) ==
  /\ Len(made) < MaxHandles
  /\ LET s1 == Create(Heap, "generic", c, o, withDisposer)
         h  == Last(s1)
     IN  Commit(CompiledSet(s1, c, o, h, IF withDisposer THEN <<ReleaseFn(h)>> ELSE <<>>))
  /\ UNCHANGED <<disposed, sceneVars, packVars, sortVars, gpuVars, treeVars, stageVars, passVars, frameVars>>

NextCache ==
  \/ \E c \in GenCaches, o \in Objs, d \in BOOLEAN : CacheSet(c, o, d)
  \/ \E o \in Objs : Dispose(o)

SpecCache == Init /\ [][NextCache]_vars

-----------------------------------------------------------------------------
(***************************************************************************)
(* std140: the uniform packer.  A uniform value is [n, v]: n = 0 is a      *)
(* number, n > 0 an array of length n; v tells values apart, component j   *)
(* of the value is the number v * 100 + j.  A Float32Array is a sequence   *)
(* of numbers; slot k (from 0) is element k + 1.                           *)
(***************************************************************************)
UniformLengths == {2, 3, 4, 9, 16}
Number(v) == [n |-> 0, v |-> v]
Array(n, v) == [n |-> n, v |-> v]
Component(value, j) == value.v * 100 + j

\* pad4, mutated: the remainder is added instead of its complement.
pad4Remainder(n) == n + (n % 4)

pad2(n) == n + (n % 2)
pad4(n) == n + ((4 - (n % 4)) % 4)

\* const pad = value.length <= 2 ? pad2 : pad4
Pad(value, n) == IF value.n <= 2 THEN pad2(n) ELSE pad4(n)

\* The first loop of std140: the offset after the values.
RECURSIVE Std140Offset(_, _)
Std140Offset(vals, offset) ==
  IF vals = <<>>
    THEN offset
    ELSE IF Head(vals).n = 0
           THEN Std140Offset(Tail(vals), offset + 1)
           ELSE Std140Offset(Tail(vals), Pad(Head(vals), offset) + Pad(Head(vals), Head(vals).n))

\* new Float32Array(pad4(offset))
Std140Alloc(vals) == [k \in 1..pad4(Std140Offset(vals, 0)) |-> 0]

\* buffer[offset] = value: a write past the end of a typed array is dropped.
StoreAt(buffer, offset, x) ==
  IF offset < Len(buffer) THEN [buffer EXCEPT ![offset + 1] = x] ELSE buffer

\* buffer.set(value, offset), which throws a RangeError when the source
\* does not fit.
SetAt(buffer, offset, value) ==
  [k \in 1..Len(buffer) |->
     IF k - 1 >= offset /\ k - 1 < offset + value.n
       THEN Component(value, k - offset)
       ELSE buffer[k]]

\* The second loop of std140: the values written into buffer. `at` lists
\* the offset each value was written at; thrown is the RangeError.
RECURSIVE Std140Write(_, _, _, _)
Std140Write(vals, buffer, offset, at) ==
  IF vals = <<>>
    THEN [data |-> buffer, at |-> at, thrown |-> FALSE]
    ELSE LET value == Head(vals)
         IN  IF value.n = 0
               THEN Std140Write(Tail(vals), StoreAt(buffer, offset, Component(value, 1)),
                                offset + 1, Append(at, offset))
               ELSE LET o == Pad(value, offset)
                    IN  IF o + value.n > Len(buffer)
                          THEN [data |-> buffer, at |-> at, thrown |-> TRUE]
                          ELSE Std140Write(Tail(vals), SetAt(buffer, o, value),
                                           o + Pad(value, value.n), Append(at, o))

\* std140(uniforms): a new buffer.
Std140(vals) == Std140Write(vals, Std140Alloc(vals), 0, <<>>)

\* std140(uniforms, buffer), mutated: the buffer is left as it was.
Std140IntoStale(vals, buffer) == [data |-> buffer, at |-> <<>>, thrown |-> FALSE]

\* std140(uniforms, buffer): buffer rewritten.
Std140Into(vals, buffer) == Std140Write(vals, buffer, 0, <<>>)

\* The caller adds a number or an array to its uniform list.
PushUniform(n) ==
  /\ Len(values) < MaxUniforms
  /\ values' = Append(values, [n |-> n, v |-> Len(values) + 1])
  /\ packed' = <<>>
  /\ UNCHANGED <<heapVars, sceneVars, sortVars, gpuVars, treeVars, stageVars, passVars, frameVars>>

\* std140(values)
PackUniforms ==
  /\ packed = <<>>
  /\ packed' = <<Std140(values)>>
  /\ UNCHANGED <<values, heapVars, sceneVars, sortVars, gpuVars, treeVars, stageVars, passVars, frameVars>>

NextStd140 ==
  \/ \E n \in {0} \cup UniformLengths : PushUniform(n)
  \/ PackUniforms

SpecStd140 == Init /\ [][NextStd140]_vars

-----------------------------------------------------------------------------
(***************************************************************************)
(* sort: the render list's order.  A mesh is [depthTest, transparent, z],  *)
(* z being the depth of its origin after projection (the z of              *)
(* applyMatrix4(camera.projectionViewMatrix)): larger is farther.          *)
(***************************************************************************)
Depths == 1..MaxDepth
SortMesh == [depthTest : BOOLEAN, transparent : BOOLEAN, z : Depths]

\* A boolean used as a number.
Num(b) == IF b THEN 1 ELSE 0

\* The comparator, mutated: the depth-test operands are swapped.
CompareSwapped(a, b, camera) ==
  LET byTest == Num(a.depthTest) - Num(b.depthTest)
      byDepth == IF camera THEN b.z - a.z ELSE 0
  IN  IF byTest /= 0 THEN byTest
      ELSE IF byDepth /= 0 THEN byDepth
      ELSE Num(a.transparent) - Num(b.transparent)

\* The comparator of sort: x || y is x unless x is 0 (or false).
Compare(a, b, camera) ==
  LET byTest == Num(b.depthTest) - Num(a.depthTest)
      byDepth == IF camera THEN b.z - a.z ELSE 0
  IN  IF byTest /= 0 THEN byTest
      ELSE IF byDepth /= 0 THEN byDepth
      ELSE Num(a.transparent) - Num(b.transparent)

\* Array.prototype.sort is stable: x ends after the elements it does not
\* sort before.
RECURSIVE Insert(_, _, _)
Insert(sorted, x, camera) ==
  IF sorted = <<>>
    THEN <<x>>
    ELSE IF Compare(sorted[Len(sorted)], x, camera) > 0
           THEN Append(Insert(SubSeq(sorted, 1, Len(sorted) - 1), x, camera), sorted[Len(sorted)])
           ELSE Append(sorted, x)

RECURSIVE ArraySort(_, _, _)
ArraySort(list, sorted, camera) ==
  IF list = <<>>
    THEN sorted
    ELSE ArraySort(Tail(list), Insert(sorted, Head(list), camera), camera)

\* Object3D.add(mesh) of a visible mesh inside the frustum.
AddMesh(mesh) ==
  /\ Len(nodes) < MaxSortMeshes
  /\ nodes' = Append(nodes, mesh)
  /\ renderList' = <<>>
  /\ UNCHANGED <<heapVars, sceneVars, packVars, gpuVars, treeVars, stageVars, passVars, frameVars>>

\* sort(scene, camera?)
Sort(camera) ==
  /\ renderList = <<>>
  /\ renderList' = <<[camera |-> camera, list |-> ArraySort(nodes, <<>>, camera)]>>
  /\ UNCHANGED <<nodes, heapVars, sceneVars, packVars, gpuVars, treeVars, stageVars, passVars, frameVars>>

NextSort ==
  \/ \E mesh \in SortMesh : AddMesh(mesh)
  \/ \E camera \in BOOLEAN : Sort(camera)

SpecSort == Init /\ [][NextSort]_vars

-----------------------------------------------------------------------------
(***************************************************************************)
(* sort with a perspective camera at the origin that looks down -z with an *)
(* identity view matrix: a mesh's origin (0, 0, at) is projected by        *)
(* Vector3.applyMatrix4(camera.projectionViewMatrix).  Fractions are kept  *)
(* as multiples of 1 / FixedPoint.                                         *)
(***************************************************************************)
FixedPoint == 6

\* The mesh origins' z in view space: negative is in front of the camera.
ViewZ == {-3, -2, -1, 1, 2}
PlacedMesh == [depthTest : BOOLEAN, transparent : BOOLEAN, at : ViewZ]

\* Matrix4.perspective(fov, aspect, near, far): the elements that act on z.
Perspective(near, far) ==
  [m10 |-> (far + near) \div (near - far), m11 |-> -1,
   m14 |-> (2 * far * near) \div (near - far), m15 |-> 0]

\* The projection-view matrix of the camera: near 1, far 3.
ProjectionViewMatrix == Perspective(1, 3)

\* x || 1
OrOne(x) == IF x = 0 THEN 1 ELSE x

\* The z of Vector3(0, 0, z).applyMatrix4(m): (m10 z + m14) / (m11 z + m15 || 1)
ApplyMatrix4Z(z, m) == (FixedPoint * (m.m10 * z + m.m14)) \div OrOne(m.m11 * z + m.m15)

\* What the comparator reads of a mesh.
Projected(mesh) ==
  [depthTest |-> mesh.depthTest, transparent |-> mesh.transparent, at |-> mesh.at,
   z |-> ApplyMatrix4Z(mesh.at, ProjectionViewMatrix)]

\* Object3D.add(mesh) of a visible mesh that is not frustum culled.
AddPlaced(mesh) ==
  /\ Len(nodes) < MaxPlacedMeshes
  /\ nodes' = Append(nodes, mesh)
  /\ renderList' = <<>>
  /\ UNCHANGED <<heapVars, sceneVars, packVars, gpuVars, treeVars, stageVars, passVars, frameVars>>

\* sort(scene, camera?)
SortPlaced(camera) ==
  /\ renderList = <<>>
  /\ renderList' = <<[camera |-> camera,
                      list |-> ArraySort([i \in 1..Len(nodes) |-> Projected(nodes[i])],
                                         <<>>, camera)]>>
  /\ UNCHANGED <<nodes, heapVars, sceneVars, packVars, gpuVars, treeVars, stageVars, passVars, frameVars>>

NextPlaced ==
  \/ \E mesh \in PlacedMesh : AddPlaced(mesh)
  \/ \E camera \in BOOLEAN : SortPlaced(camera)

SpecPlaced == Init /\ [][NextPlaced]_vars

-----------------------------------------------------------------------------
(***************************************************************************)
(* Frustum: the planes of a projection-view matrix and the bounding-sphere *)
(* test of a mesh.  A matrix is its 16 numbers; element k (from 0) of an   *)
(* array is El(array, k).  Vertex coordinates are chosen so that every     *)
(* vertex length is a whole number.                                        *)
(***************************************************************************)
El(array, k) == array[k + 1]

\* new Matrix4()
Identity == <<1, 0, 0, 0,  0, 1, 0, 0,  0, 0, 1, 0,  0, 0, 0, 1>>

\* Frustum.fromMatrix4: left, right, top, bottom, near and far plane.
FromMatrix4(m) ==
  LET m00 == El(m, 0)   m01 == El(m, 1)   m02 == El(m, 2)   m03 == El(m, 3)
      m10 == El(m, 4)   m11 == El(m, 5)   m12 == El(m, 6)   m13 == El(m, 7)
      m20 == El(m, 8)   m21 == El(m, 9)   m22 == El(m, 10)  m23 == El(m, 11)
      m30 == El(m, 12)  m31 == El(m, 13)  m32 == El(m, 14)  m33 == El(m, 15)
  IN  <<m03 - m00, m13 - m10, m23 - m20, m33 - m30,
        m03 + m00, m13 + m10, m23 + m20, m33 + m30,
        m03 + m01, m13 + m11, m23 + m21, m33 + m31,
        m03 - m01, m13 - m11, m23 - m21, m33 - m31,
        m03 - m02, m13 - m12, m23 - m22, m33 - m32,
        m03 + m02, m13 + m12, m23 + m22, m33 + m32>>

\* camera.frustum of a camera whose projection and view matrix are identity.
CameraFrustum == FromMatrix4(Identity)

Min(a, b) == IF a < b THEN a ELSE b
Max(a, b) == IF a > b THEN a ELSE b
Sqrt(n) == CHOOSE r \in 0..n : r * r = n

\* position.data: the vertices' coordinates one after the other.
RECURSIVE PositionData(_)
PositionData(vs) == IF vs = <<>> THEN <<>> ELSE Head(vs) \o PositionData(Tail(vs))

\* for (let vi = i; vi < i + size; vi++) vertexLengthSquared += data[vi] ** 2
RECURSIVE LengthSquared(_, _, _)
LengthSquared(data, vi, end) ==
  IF vi >= end THEN 0 ELSE El(data, vi) * El(data, vi) + LengthSquared(data, vi + 1, end)

\* for (let i = 0; i < vertices; i += position.size) ...
RECURSIVE RadiusLoop(_, _, _, _, _)
RadiusLoop(data, size, numVertices, i, radius) ==
  IF i >= numVertices
    THEN radius
    ELSE RadiusLoop(data, size, numVertices, i + size,
                    Max(radius, Sqrt(LengthSquared(data, i, i + size))))

\* The radius Frustum.contains computes for a mesh.
Radius(mesh) ==
  LET data == PositionData(vertices[geometry[mesh]])
      size == Len(vertices[geometry[mesh]][1])
      r    == RadiusLoop(data, size, Len(data) \div size, 0, 0)
  IN  r * Max(scale[mesh][1], Max(scale[mesh][2], scale[mesh][3]))

\* The plane loop of Frustum.contains: the world origin is (matrix, 0, 0).
RECURSIVE InsidePlanes(_, _, _, _)
InsidePlanes(frustum, mesh, radius, i) ==
  IF i >= 6
    THEN TRUE
    ELSE LET offset == i * 4
             distance == El(frustum, offset) * matrix[mesh] + El(frustum, offset + 1) * 0
                           + El(frustum, offset + 2) * 0 + El(frustum, offset + 3)
         IN  IF distance <= -radius THEN FALSE
             ELSE InsidePlanes(frustum, mesh, radius, i + 1)

\* Frustum.contains(mesh)
Contains(frustum, mesh) == InsidePlanes(frustum, mesh, Radius(mesh), 0)

\* The inputs of the test of one mesh.
FrustumMesh == <<"mesh", 1>>
VertexChoices == {<<0, 0, 0>>, <<0, 4, 0>>, <<3, 4, 0>>}
ScaleChoices == {<<1, 1, 1>>, <<2, 1, 1>>, <<1, 1, 2>>}
XChoices == {0, 3, 8}

\* The application appends a vertex to the position data of a geometry.
PushVertex(g, v) ==
  /\ Len(vertices[g]) < MaxVertices
  /\ vertices' = [vertices EXCEPT ![g] = Append(@, v)]
  /\ tested' = <<>>
  /\ UNCHANGED <<heapVars, sceneVars, packVars, sortVars, gpuVars, stageVars, passVars, frameVars,
                 parent, visible, frustumCulled, matrix, scale>>

\* mesh.scale.set(...)
SetScale(mesh, s) ==
  /\ scale[mesh] /= s
  /\ scale' = [scale EXCEPT ![mesh] = s]
  /\ tested' = <<>>
  /\ UNCHANGED <<heapVars, sceneVars, packVars, sortVars, gpuVars, stageVars, passVars, frameVars,
                 parent, visible, frustumCulled, matrix, vertices>>

\* The mesh is moved and its world matrix updated.
SetMatrix(mesh, x) ==
  /\ matrix[mesh] /= x
  /\ matrix' = [matrix EXCEPT ![mesh] = x]
  /\ tested' = <<>>
  /\ renderList' = <<>>
  /\ UNCHANGED <<heapVars, sceneVars, packVars, nodes, gpuVars, stageVars, passVars, frameVars,
                 parent, visible, frustumCulled, scale, vertices>>

\* camera.frustum.contains(mesh)
FrustumContains(mesh) ==
  /\ tested = <<>>
  /\ tested' = <<[mesh |-> mesh, radius |-> Radius(mesh),
                  inView |-> Contains(CameraFrustum, mesh)]>>
  /\ UNCHANGED <<heapVars, sceneVars, packVars, sortVars, gpuVars, stageVars, passVars, frameVars,
                 parent, visible, frustumCulled, matrix, scale, vertices>>

NextFrustum ==
  \/ \E v \in VertexChoices : PushVertex(geometry[FrustumMesh], v)
  \/ \E s \in ScaleChoices : SetScale(FrustumMesh, s)
  \/ \E x \in XChoices : SetMatrix(FrustumMesh, x)
  \/ FrustumContains(FrustumMesh)

SpecFrustum == Init /\ [][NextFrustum]_vars

-----------------------------------------------------------------------------
(***************************************************************************)
(* sort(scene, camera?) on the scene graph: the scene is the root, mesh 1  *)
(* is a child of the scene and mesh 2 a child of the scene or of mesh 1.   *)
(* The camera's projection and view matrix are identity.                   *)
(***************************************************************************)

\* node.children, in the order they were added.
Children(node) ==
  (IF parent[<<"mesh", 1>>] = node THEN << <<"mesh", 1>> >> ELSE <<>>)
    \o (IF parent[<<"mesh", 2>>] = node THEN << <<"mesh", 2>> >> ELSE <<>>)

\* The traversal callback of sort, mutated: an invisible node is passed
\* over without stopping the traversal of its children.
SortCallbackPassing(node, camera) ==
  IF ~visible[node] THEN "skip"
  ELSE IF node \notin Meshes THEN "skip"
  ELSE IF camera /\ frustumCulled[node] /\ ~Contains(CameraFrustum, node) THEN "stop"
  ELSE "push"

\* The traversal callback of sort: "stop" is return true, "skip" is return
\* and "push" is renderList.push(node).
SortCallback(node, camera) ==
  IF ~visible[node] THEN "stop"
  ELSE IF node \notin Meshes THEN "skip"
  ELSE IF camera /\ frustumCulled[node] /\ ~Contains(CameraFrustum, node) THEN "stop"
  ELSE "push"

\* Object3D.traverse: t.visited are the nodes the callback was called with.
RECURSIVE Traverse(_, _, _)
RECURSIVE TraverseChildren(_, _, _)
Traverse(t, node, camera) ==
  LET r  == SortCallback(node, camera)
      t1 == [list |-> IF r = "push" THEN Append(t.list, node) ELSE t.list,
             visited |-> Append(t.visited, node)]
  IN  IF r = "stop" THEN t1 ELSE TraverseChildren(t1, Children(node), camera)

TraverseChildren(t, children, camera) ==
  IF children = <<>>
    THEN t
    ELSE TraverseChildren(Traverse(t, Head(children), camera), Tail(children), camera)

\* What the comparator reads of a mesh of the scene.
SceneMesh(mesh, m) ==
  [mesh |-> mesh,
   depthTest |-> flags[material[mesh]].depthTest,
   transparent |-> flags[material[mesh]].transparent,
   z |-> (El(m, 2) * matrix[mesh] + El(m, 14)) \div OrOne(El(m, 3) * matrix[mesh] + El(m, 15))]

\* sort(scene, camera?): the meshes in emitted order, and the nodes visited.
SortScene(camera) ==
  LET t == Traverse([list |-> <<>>, visited |-> <<>>], Scene, camera)
      sorted == ArraySort([i \in 1..Len(t.list) |-> SceneMesh(t.list[i], Identity)], <<>>, camera)
  IN  [list |-> [i \in 1..Len(sorted) |-> sorted[i].mesh], visited |-> t.visited]

\* node.visible = b
SetVisible(node, b) ==
  /\ visible[node] /= b
  /\ visible' = [visible EXCEPT ![node] = b]
  /\ renderList' = <<>>
  /\ UNCHANGED <<heapVars, sceneVars, packVars, nodes, gpuVars, stageVars, passVars, frameVars,
                 parent, frustumCulled, matrix, scale, vertices, tested>>

\* mesh.frustumCulled = b
SetFrustumCulled(mesh, b) ==
  /\ frustumCulled[mesh] /= b
  /\ frustumCulled' = [frustumCulled EXCEPT ![mesh] = b]
  /\ renderList' = <<>>
  /\ UNCHANGED <<heapVars, sceneVars, packVars, nodes, gpuVars, stageVars, passVars, frameVars,
                 parent, visible, matrix, scale, vertices, tested>>

\* mesh.parent.remove(mesh); node.add(mesh)
MoveUnder(mesh, node) ==
  /\ parent[mesh] /= node
  /\ parent' = [parent EXCEPT ![mesh] = node]
  /\ renderList' = <<>>
  /\ UNCHANGED <<heapVars, sceneVars, packVars, nodes, gpuVars, stageVars, passVars, frameVars,
                 visible, frustumCulled, matrix, scale, vertices, tested>>

\* renderer.sort(scene, camera?)
SortSceneCall(camera) ==
  /\ renderList = <<>>
  /\ renderList' = <<[camera |-> camera] @@ SortScene(camera)>>
  /\ UNCHANGED <<heapVars, sceneVars, packVars, nodes, gpuVars, stageVars, passVars, frameVars, treeVars>>

NextScene ==
  \/ \E node \in Nodes, b \in BOOLEAN : SetVisible(node, b)
  \/ \E mesh \in Meshes, b \in BOOLEAN : SetFrustumCulled(mesh, b)
  \/ \E mesh \in Meshes, x \in XChoices : SetMatrix(mesh, x)
  \/ \E node \in {Scene, <<"mesh", 1>>} : MoveUnder(<<"mesh", 2>>, node)
  \/ \E camera \in BOOLEAN : SortSceneCall(camera)

SpecScene == Init /\ [][NextScene]_vars

-----------------------------------------------------------------------------
(***************************************************************************)
(* Object3D.updateMatrix: the transform pass.  Nodes are not rotated and   *)
(* a matrix is followed along the x axis: s is its scale matrix[0] and t   *)
(* its translation matrix[12].                                             *)
(***************************************************************************)

\* The x component of node.scale; the scene keeps the scale 1.
ScaleX(node) == IF node = Scene THEN 1 ELSE scale[node][1]

\* Matrix4.compose(position, quaternion, scale)
Compose(node) == [s |-> ScaleX(node), t |-> position[node]]

\* Matrix4.multiply, mutated: the argument is ignored.
MultiplyIgnored(m, t) == m

\* Matrix4.multiply(t): this = this x t, in column-major order
\*   this[0] = m00 * t00 + ..., this[12] = m00 * t30 + ... + m30 * t33
Multiply(m, t) == [s |-> m.s * t.s, t |-> m.s * t.t + m.t]

\* node.updateMatrix() on the matrices tr
RECURSIVE UpdateMatrixAt(_, _)
RECURSIVE UpdateChildren(_, _)
UpdateMatrixAt(tr, node) ==
  IF matrixAutoUpdate[node]
    THEN LET composed == Compose(node)
             m == IF node /= Scene THEN Multiply(composed, tr[parent[node]]) ELSE composed
         IN  UpdateChildren([tr EXCEPT ![node] = m], Children(node))
    ELSE tr

\* for (const child of this.children) child.updateMatrix()
UpdateChildren(tr, children) ==
  IF children = <<>>
    THEN tr
    ELSE UpdateChildren(UpdateMatrixAt(tr, Head(children)), Tail(children))

\* scene.updateMatrix()
UpdateMatrix ==
  /\ transform' = UpdateMatrixAt(transform, Scene)
  /\ calls' = <<Ev("updateMatrix", "", Scene, 0)>>
  /\ UNCHANGED <<samples, glState, caches, dispose, made, released, content, disposed, needsUpdate,
                 sceneVars, packVars, sortVars, gpuVars, treeVars, stageVars,
                 autoClear, position, matrixAutoUpdate, drawRange, textureUniforms,
                 frameVars>>

\* node.position.x = x
SetPosition(node, x) ==
  /\ position[node] /= x
  /\ position' = [position EXCEPT ![node] = x]
  /\ calls' = <<>>
  /\ UNCHANGED <<samples, glState, caches, dispose, made, released, content, disposed, needsUpdate,
                 sceneVars, packVars, sortVars, gpuVars, treeVars, stageVars,
                 autoClear, matrixAutoUpdate, transform, drawRange, textureUniforms,
                 frameVars>>

\* node.matrixAutoUpdate = b
SetMatrixAutoUpdate(node, b) ==
  /\ matrixAutoUpdate[node] /= b
  /\ matrixAutoUpdate' = [matrixAutoUpdate EXCEPT ![node] = b]
  /\ calls' = <<>>
  /\ UNCHANGED <<samples, glState, caches, dispose, made, released, content, disposed, needsUpdate,
                 sceneVars, packVars, sortVars, gpuVars, treeVars, stageVars,
                 autoClear, position, transform, drawRange, textureUniforms,
                 frameVars>>

PositionChoices == {0, 1}

\* A scene of two meshes, the second under the scene or under the first,
\* moved, scaled and frozen between the passes.
NextTransform ==
  \/ UpdateMatrix
  \/ \E node \in Nodes, x \in PositionChoices : SetPosition(node, x)
  \/ SetScale(<<"mesh", 1>>, <<2, 1, 1>>)
  \/ \E node \in Nodes, b \in BOOLEAN : SetMatrixAutoUpdate(node, b)
  \/ \E node \in {Scene, <<"mesh", 1>>} : MoveUnder(<<"mesh", 2>>, node)

SpecTransform == Init /\ [][NextTransform]_vars

-----------------------------------------------------------------------------
(***************************************************************************)
(* WebGLRenderer: render targets.                                          *)
(***************************************************************************)

\* WebGLRenderer._updateSampler
GLUpdateSampler(st, sampler) ==
  LET s1 == IF GetIn(st, "_samplers", sampler) = <<>>
              THEN LET c == Create(st, "sampler", "_samplers", sampler, FALSE)
                   IN  [CompiledSet(c, "_samplers", sampler, Last(c), <<>>)
                          EXCEPT !.needsUpdate[sampler] = TRUE]
              ELSE st
      target == GetIn(s1, "_samplers", sampler)[1]
  IN  IF s1.needsUpdate[sampler]
        THEN [Call(s1, "samplerParameteri", sampler, target)
                EXCEPT !.needsUpdate[sampler] = FALSE]
        ELSE s1

\* if (!(texture.image instanceof HTMLVideoElement)) texture.needsUpdate =
\* false
GLUploaded(st, texture) ==
  IF image[texture] /= "video" THEN [st EXCEPT !.needsUpdate[texture] = FALSE] ELSE st

\* WebGLRenderer._updateTexture: the image is uploaded, or a texture
\* without an image (a render target attachment) is allocated at the given
\* size. The event tells which image texImage2D got.
GLUpdateTexture(st, texture) ==
  LET s1 == IF GetIn(st, "_textures", texture) = <<>>
              THEN LET c == Create(st, "texture", "_textures", texture, TRUE)
                   IN  [CompiledSet(c, "_textures", texture, Last(c), <<ReleaseFn(Last(c))>>)
                          EXCEPT !.needsUpdate[texture] = TRUE]
              ELSE st
      target == GetIn(s1, "_textures", texture)[1]
      s2 == Call(s1, "bindTexture", texture, target)
      s3 == IF s2.needsUpdate[texture]
              THEN GLUploaded([s2 EXCEPT !.calls = Append(@, Ev("texImage2D", image[texture],
                                                                  texture, target))],
                              texture)
              ELSE s2
  IN  IF s3.needsUpdate[texture] \/ s3.needsUpdate[SamplerOf(texture)]
        THEN GLUpdateSampler(s3, SamplerOf(texture))
        ELSE s3

RECURSIVE GLAttachTextures(_, _, _)
GLAttachTextures(st, textures, FBO) ==
  IF textures = <<>>
    THEN st
    ELSE LET s1 == GLUpdateTexture(st, Head(textures))
             target == GetIn(s1, "_textures", Head(textures))[1]
         IN  GLAttachTextures(Call(s1, "framebufferTexture2D", Head(textures), target),
                              Tail(textures), FBO)

\* An upper bound of the handles setRenderTarget(rt) creates in this state.
TargetAllocHandles(rt) ==
  IF Get("_FBOs", rt) = <<>> \/ needsUpdate[rt]
    THEN 1 + Cardinality({k \in 1..RTCount : Get("_textures", TexturesOf(rt)[k]) = <<>>})
           + (IF Get("_samplers", SamplerOfRT(rt)) = <<>> THEN 1 ELSE 0)
    ELSE 0

\* WebGLRenderer.setRenderTarget(null)
GLSetRenderTargetNull ==
  /\ Commit(Call(Call(Heap, "bindFramebuffer", NoObj, 0), "viewport", NoObj, 0))
  /\ UNCHANGED <<disposed, sceneVars, packVars, sortVars, gpuVars, treeVars, stageVars, passVars, frameVars>>

\* WebGLRenderer.setRenderTarget(renderTarget)
GLSetRenderTarget(rt) ==
  /\ Len(made) + TargetAllocHandles(rt) <= MaxTargetHandles
  /\ LET old == Get("_FBOs", rt)
     IN  IF old = <<>> \/ needsUpdate[rt]
           THEN LET s1 == IF old /= <<>>
                            THEN [Call(Heap, "release", NoObj, old[1])
                                    EXCEPT !.released[old[1]] = @ + 1]
                            ELSE Heap
                    s2 == Create(s1, "framebuffer", "_FBOs", rt, TRUE)
                    FBO == Last(s2)
                    s3 == Call(s2, "bindFramebuffer", rt, FBO)
                    s4 == GLAttachTextures(s3, TexturesOf(rt), FBO)
                    s5 == [Call(s4, "drawBuffers", rt, FBO) EXCEPT !.needsUpdate[rt] = FALSE]
                    s6 == CompiledSet(s5, "_FBOs", rt, FBO, <<ReleaseFn(FBO)>>)
                IN  Commit(Call(Call(s6, "bindFramebuffer", rt, FBO), "viewport", rt, 0))
           ELSE Commit(Call(Call(Heap, "bindFramebuffer", rt, old[1]), "viewport", rt, 0))
  /\ UNCHANGED <<disposed, sceneVars, packVars, sortVars, gpuVars, treeVars, stageVars, passVars, frameVars>>

\* RenderTarget.setSize
RTSetSize(rt) ==
  /\ needsUpdate' = [needsUpdate EXCEPT ![rt] = TRUE]
  /\ calls' = <<>>
  /\ UNCHANGED <<samples, glState, caches, dispose, made, released, content, disposed, sceneVars, packVars, sortVars, gpuVars, treeVars, stageVars, passVars, frameVars>>

NextGLTarget ==
  \/ GLSetRenderTargetNull
  \/ \E rt \in RTs : GLSetRenderTarget(rt)
  \/ \E rt \in RTs : RTSetSize(rt)
  \/ \E o \in RTs \cup Texs : Dispose(o)

SpecGLTarget == Init /\ [][NextGLTarget]_vars

-----------------------------------------------------------------------------
(***************************************************************************)
(* WebGLRenderer: compiling a mesh (program, vertex array, buffers).       *)
(* The materials' shader sources compile and link.                         *)
(***************************************************************************)

\* attribute.data: the position attribute of a geometry holds the
\* geometry's vertices, an index attribute the single index 0.
AttributeData(attribute) ==
  LET isPosition(g) == attributes[g] /= <<>> /\ attributes[g][1].attr = attribute
  IN  IF \E g \in Geoms : isPosition(g)
        THEN PositionData(vertices[CHOOSE g \in Geoms : isPosition(g)])
        ELSE <<0>>

\* The rewrite of a buffer, mutated: the data are left as they are.
GLUpdateBufferSkipped(st, attribute, buffer) ==
  [st EXCEPT !.needsUpdate[attribute] = FALSE]

\* if (attribute.needsUpdate): the buffer is bound, its data are written
\* and the flag is cleared.
GLUpdateBuffer(st, attribute, buffer) ==
  [Call(Call(st, "bindBuffer", attribute, buffer), "bufferData", attribute, buffer)
     EXCEPT !.needsUpdate[attribute] = FALSE,
            !.content[buffer] = AttributeData(attribute)]

\* The per-attribute loop of WebGLRenderer.compile; `rebind` is
\* program !== compiled?.program || VAO !== compiled?.VAO.
RECURSIVE GLCompileAttributes(_, _, _)
GLCompileAttributes(st, attrs, rebind) ==
  IF attrs = <<>>
    THEN st
    ELSE LET attribute == Head(attrs).attr
             old == GetIn(st, "_buffers", attribute)
             s1 == IF old = <<>> \/ rebind
                     THEN LET s == IF old = <<>>
                                     THEN LET c  == Create(st, "buffer", "_buffers", attribute, FALSE)
                                              c2 == CompiledSet(c, "_buffers", attribute, Last(c), <<>>)
                                              c3 == Call(c2, "bindBuffer", attribute, Last(c))
                                              c4 == Call(c3, "bufferData", attribute, Last(c))
                                          IN  [c4 EXCEPT !.needsUpdate[attribute] = FALSE,
                                                         !.content[Last(c)] = AttributeData(attribute)]
                                     ELSE Call(st, "bindBuffer", attribute, old[1])
                          IN  Call(s, "vertexAttribPointer", attribute, GetIn(s, "_buffers", attribute)[1])
                     ELSE st
             buffer == GetIn(s1, "_buffers", attribute)[1]
             s2 == IF s1.needsUpdate[attribute]
                     THEN GLUpdateBuffer(s1, attribute, buffer)
                     ELSE s1
         IN  GLCompileAttributes(s2, Tail(attrs), rebind)

\* An upper bound of the handles compile(mesh) creates in this state.
GLCompileHandles(mesh) ==
  (IF Get("_programs", material[mesh]) = <<>> THEN 1 ELSE 0)
  + (IF Get("_geometry", geometry[mesh]) = <<>> THEN 1 ELSE 0)
  + Cardinality({i \in 1..Len(attributes[geometry[mesh]]) :
                   Get("_buffers", attributes[geometry[mesh]][i].attr) = <<>>})
  + 2 * Len(textureUniforms[material[mesh]])

\* The program part of compile: a program that is not cached is created,
\* registered with its disposer, compiled and linked; an info log is thrown.
GLCompileProgram(st, mesh) ==
  IF GetIn(st, "_programs", material[mesh]) = <<>>
    THEN LET c  == CreateLabeled(st, "program", "_programs", material[mesh], TRUE,
                                 [linked |-> glsl[material[mesh]] = "valid"])
             c2 == CompiledSet(c, "_programs", material[mesh], Last(c), <<ReleaseFn(Last(c))>>)
             c3 == Call(c2, "linkProgram", material[mesh], Last(c))
         IN  IF glsl[material[mesh]] = "valid"
               THEN [st |-> c3, thrown |-> FALSE]
               ELSE [st |-> Call(c3, "throw", mesh, Last(c)), thrown |-> TRUE]
    ELSE [st |-> st, thrown |-> FALSE]

\* _setUniform of a texture value on the texture unit index: the unit is
\* made active, the cached sampler bound, the texture updated.
GLSetTexture(st, texture, index) ==
  Call(GLUpdateTexture(IF GetIn(st, "_samplers", SamplerOf(texture)) /= <<>>
                         THEN Call(Call(st, "activeTexture", texture, index),
                                   "bindSampler", SamplerOf(texture),
                                   GetIn(st, "_samplers", SamplerOf(texture))[1])
                         ELSE Call(st, "activeTexture", texture, index),
                       texture),
       "uniform1i", texture, index)

\* for (const key in mesh.material.uniforms) this._setUniform(...): the
\* texture values, each on the next unit; step[i] is the heap after the
\* i-th texture.
GLSetTextures(st, textures) ==
  LET step[i \in 0..Len(textures)] ==
        IF i = 0 THEN st ELSE GLSetTexture(step[i - 1], textures[i], i - 1)
  IN  step[Len(textures)]

\* WebGLRenderer.compile(mesh) on a heap: `thrown` is the exception.
GLCompileOn(st, mesh) ==
  LET compiled == GetIn(st, "_compiled", mesh)
      p  == GLCompileProgram(st, mesh)
      s1 == p.st
      program == GetIn(s1, "_programs", material[mesh])[1]
      s2 == IF GetIn(s1, "_geometry", geometry[mesh]) = <<>>
              THEN LET c == Create(s1, "vertexArray", "_geometry", geometry[mesh], TRUE)
                   IN  CompiledSet(c, "_geometry", geometry[mesh], Last(c), <<ReleaseFn(Last(c))>>)
              ELSE s1
      VAO == GetIn(s2, "_geometry", geometry[mesh])[1]
      s3 == Call(Call(s2, "useProgram", material[mesh], program), "bindVertexArray", geometry[mesh], VAO)
      rebind == compiled = <<>> \/ program /= compiled[1].program \/ VAO /= compiled[1].VAO
      s4 == GLCompileAttributes(s3, attributes[geometry[mesh]], rebind)
      s5 == GLSetTextures(Call(s4, "setUniform", material[mesh], program),
                          textureUniforms[material[mesh]])
  IN  IF p.thrown
        THEN p
        ELSE [st |-> IF compiled = <<>>
                       THEN CompiledSet(s5, "_compiled", mesh, [program |-> program, VAO |-> VAO], <<>>)
                       ELSE s5,
              thrown |-> FALSE]

\* WebGLRenderer.compile(mesh), while at most MaxMade handles exist
GLCompileWithin(mesh, MaxMade) ==
  /\ Len(made) + GLCompileHandles(mesh) <= MaxMade
  /\ Commit(GLCompileOn(Heap, mesh).st)
  /\ UNCHANGED <<disposed, sceneVars, packVars, sortVars, gpuVars, treeVars, stageVars, passVars, frameVars>>

GLCompile(mesh) == GLCompileWithin(mesh, MaxCompileHandles)

\* The application sets attribute.needsUpdate = true after changing its data.
AttributeNeedsUpdate(attribute) ==
  /\ ~needsUpdate[attribute]
  /\ needsUpdate' = [needsUpdate EXCEPT ![attribute] = TRUE]
  /\ calls' = <<>>
  /\ UNCHANGED <<samples, glState, caches, dispose, made, released, content, disposed, sceneVars, packVars, sortVars, gpuVars, treeVars, stageVars, passVars, frameVars>>

NextGL ==
  \/ \E mesh \in Meshes : GLCompile(mesh)
  \/ \E attribute \in Attrs : AttributeNeedsUpdate(attribute)
  \/ \E o \in Geoms \cup Mats : Dispose(o)

SpecGL == Init /\ [][NextGL]_vars

\* The vertex the application appends when it replaces a data view.
DataVertex == <<0, 0, 0>>

\* Meshes compiled while the application replaces the position data of the
\* geometries by longer views, with or without setting needsUpdate.
NextGLData ==
  \/ \E mesh \in Meshes : GLCompile(mesh)
  \/ \E g \in Geoms : PushVertex(g, DataVertex)
  \/ \E attribute \in Attrs : AttributeNeedsUpdate(attribute)

SpecGLData == Init /\ [][NextGLData]_vars

\* material.uniforms gets or loses texture values.
SetTextureUniforms(mat, textures) ==
  /\ textureUniforms[mat] /= textures
  /\ textureUniforms' = [textureUniforms EXCEPT ![mat] = textures]
  /\ calls' = <<>>
  /\ renderList' = <<>>
  /\ UNCHANGED <<samples, glState, caches, dispose, made, released, content, disposed, needsUpdate,
                 sceneVars, packVars, nodes, gpuVars, treeVars, stageVars,
                 autoClear, position, matrixAutoUpdate, transform, drawRange,
                 frameVars>>

\* texture.image = source: the image arrives, or a video replaces it.
SetImage(texture, source) ==
  /\ image[texture] /= source
  /\ image' = [image EXCEPT ![texture] = source]
  /\ calls' = <<>>
  /\ UNCHANGED <<samples, glState, caches, dispose, made, released, content, disposed, needsUpdate,
                 sceneVars, packVars, sortVars, gpuVars, treeVars, stageVars, passVars, fragment>>

\* The application sets texture.needsUpdate = true.
TextureNeedsUpdate(texture) ==
  /\ ~needsUpdate[texture]
  /\ needsUpdate' = [needsUpdate EXCEPT ![texture] = TRUE]
  /\ calls' = <<>>
  /\ UNCHANGED <<samples, glState, caches, dispose, made, released, content, disposed, sceneVars, packVars,
                 sortVars, gpuVars, treeVars, stageVars, passVars, frameVars>>

\* The mesh whose material has texture uniforms.
TextureMesh == <<"mesh", 1>>

\* One mesh compiled while a texture becomes a uniform of its material, the
\* texture's image arrives or changes, and the texture is marked or disposed.
NextGLTexture ==
  \/ GLCompileWithin(TextureMesh, MaxTextureHandles)
  \/ \E textures \in {<<>>, << <<"tex", 1>> >>} :
       SetTextureUniforms(material[TextureMesh], textures)
  \/ \E source \in ImageSources : SetImage(<<"tex", 1>>, source)
  \/ TextureNeedsUpdate(<<"tex", 1>>)
  \/ Dispose(<<"tex", 1>>)

SpecGLTexture == Init /\ [][NextGLTexture]_vars

-----------------------------------------------------------------------------
(***************************************************************************)
(* WebGLRenderer.render: a frame.  autoClear is on; the world matrices are *)
(* up to date, so that updateMatrix leaves them as they are.               *)
(***************************************************************************)

\* The four state setters of render, mutated: nothing is set.
GLApplyStateNone(st, node) == st

\* WebGLRenderer.setDepthTest(enabled)
GLSetDepthTest(st, node, enabled) ==
  [Call(st, "setDepthTest", node, 0) EXCEPT !.gl.DEPTH_TEST = enabled]

\* WebGLRenderer.setDepthMask(enabled)
GLSetDepthMask(st, node, enabled) ==
  [Call(st, "setDepthMask", node, 0) EXCEPT !.gl.depthMask = enabled]

\* WebGLRenderer.setCullSide(side): 'both' disables CULL_FACE and
\* DEPTH_TEST, a single side enables CULL_FACE and culls the other face.
GLSetCullSide(st, node, side) ==
  IF side = "both"
    THEN [Call(st, "setCullSide", node, 0) EXCEPT !.gl.CULL_FACE = FALSE, !.gl.DEPTH_TEST = FALSE]
    ELSE [Call(st, "setCullSide", node, 0)
            EXCEPT !.gl.CULL_FACE = TRUE,
                   !.gl.cullFace = IF side = "front" THEN "back" ELSE "front"]

\* WebGLRenderer.setBlending(blending)
GLSetBlending(st, node, blending) ==
  [Call(st, "setBlending", node, 0) EXCEPT !.gl.BLEND = blending /= "undefined"]

\* setDepthTest, setDepthMask, setCullSide and setBlending of the material.
GLApplyState(st, node) ==
  GLSetBlending(GLSetCullSide(GLSetDepthMask(GLSetDepthTest(st, node, flags[material[node]].depthTest),
                                             node, flags[material[node]].depthWrite),
                              node, flags[material[node]].side),
                node, flags[material[node]].blending)

\* GL_COLOR_BUFFER_BIT, GL_DEPTH_BUFFER_BIT and GL_STENCIL_BUFFER_BIT
GL_COLOR_BUFFER_BIT == 16384
GL_DEPTH_BUFFER_BIT == 256
GL_STENCIL_BUFFER_BIT == 1024

\* clear(), mutated: the color buffer alone is cleared.
GLClearColor(st) == Call(st, "clear", Scene, GL_COLOR_BUFFER_BIT)

\* WebGLRenderer.clear() with its default bits: the three bits have no
\* binary digit in common, so that their bitwise or is their sum.
GLClear(st) ==
  [st EXCEPT !.calls = Append(@, Ev("clear", "", Scene, GL_COLOR_BUFFER_BIT + GL_DEPTH_BUFFER_BIT
                                                          + GL_STENCIL_BUFFER_BIT)
                                   @@ [gl |-> st.gl])]

\* geometry.attributes[key], <<>> when the geometry has no such attribute
AttributeOf(g, key) ==
  LET ks == {k \in 1..Len(attributes[g]) : attributes[g][k].key = key}
  IN  IF ks = {} THEN <<>> ELSE <<attributes[g][CHOOSE k \in ks : TRUE].attr>>

\* min(count, n) for a count of drawRange
MinCount(count, n) == IF count = <<>> THEN n ELSE Min(count[1], n)

\* The first vertex and the vertex count of the draw call of render: of
\* the index, else of the position attribute, else three vertices from 0.
DrawRangeOf(node) ==
  LET index == AttributeOf(geometry[node], "index")
      positions == AttributeOf(geometry[node], "position")
      range == drawRange[geometry[node]]
  IN  IF index /= <<>>
        THEN [start |-> range.start, count |-> MinCount(range.count, Len(AttributeData(index[1])))]
        ELSE IF positions /= <<>>
               THEN [start |-> range.start,
                     count |-> MinCount(range.count, Len(AttributeData(positions[1])) \div 3)]
               ELSE [start |-> 0, count |-> 3]

\* drawElementsInstanced or drawArraysInstanced: the event keeps the first
\* vertex in c and the vertex count in h.
GLDraw(st, node) ==
  [st EXCEPT !.calls = Append(@, Ev("draw", DrawRangeOf(node).start, node, DrawRangeOf(node).count)
                                   @@ [gl |-> st.gl])]

\* for (const node of renderList): an exception of compile leaves the loop
\* and render.
RECURSIVE GLRenderLoop(_, _)
GLRenderLoop(st, list) ==
  IF list = <<>>
    THEN st
    ELSE LET c == GLCompileOn(Call(st, "compile", Head(list), 0), Head(list))
         IN  IF c.thrown
               THEN c.st
               ELSE GLRenderLoop(GLDraw(GLApplyState(c.st, Head(list)), Head(list)), Tail(list))

\* An upper bound of the handles a frame creates in this state.
RECURSIVE GLRenderHandles(_)
GLRenderHandles(list) ==
  IF list = <<>> THEN 0 ELSE GLCompileHandles(Head(list)) + GLRenderHandles(Tail(list))

\* WebGLRenderer.render(scene, camera?)
GLRender(camera) ==
  /\ Len(made) + GLRenderHandles(SortScene(camera).list) <= MaxRenderHandles
  /\ Commit(GLRenderLoop(IF autoClear
                           THEN GLClear(Call(Heap, "render", Scene, 0))
                           ELSE Call(Heap, "render", Scene, 0),
                         SortScene(camera).list))
  /\ renderList' = <<[camera |-> camera] @@ SortScene(camera)>>
  /\ UNCHANGED <<disposed, sceneVars, packVars, nodes, gpuVars, treeVars, stageVars, passVars, frameVars>>

\* The application replaces material.vertex and material.fragment by
\* sources that compile and link, or by sources that do not.
SetSource(mat, v) ==
  /\ glsl[mat] /= v
  /\ glsl' = [glsl EXCEPT ![mat] = v]
  /\ calls' = <<>>
  /\ renderList' = <<>>
  /\ UNCHANGED <<samples, glState, caches, dispose, made, released, content, disposed, needsUpdate,
                 sceneVars, packVars, nodes, gpuVars, treeVars, compute, passVars, frameVars>>

\* The application makes the material compute-only (a compute stage and no
\* vertex or fragment stage), or a render material again.
SetCompute(mat, b) ==
  /\ compute[mat] /= b
  /\ compute' = [compute EXCEPT ![mat] = b]
  /\ calls' = <<>>
  /\ renderList' = <<>>
  /\ UNCHANGED <<samples, glState, caches, dispose, made, released, content, disposed, needsUpdate,
                 sceneVars, packVars, nodes, gpuVars, treeVars, glsl, passVars, frameVars>>

\* renderer.autoClear = b
SetAutoClear(b) ==
  /\ autoClear /= b
  /\ autoClear' = b
  /\ calls' = <<>>
  /\ renderList' = <<>>
  /\ UNCHANGED <<samples, glState, caches, dispose, made, released, content, disposed, needsUpdate,
                 sceneVars, packVars, nodes, gpuVars, treeVars, stageVars,
                 position, matrixAutoUpdate, transform, drawRange, textureUniforms,
                 frameVars>>

NextGLRender ==
  \/ \E camera \in BOOLEAN : GLRender(camera)
  \/ \E mat \in Mats, v \in {"valid", "invalid"} : SetSource(mat, v)
  \/ \E mat \in Mats, b \in BOOLEAN : SetCompute(mat, b)
  \/ \E mesh \in Meshes, b \in BOOLEAN : SetVisible(mesh, b)

SpecGLRender == Init /\ [][NextGLRender]_vars

\* Frames of the scene while autoClear is switched and meshes are hidden.
NextGLClear ==
  \/ \E camera \in BOOLEAN : GLRender(camera)
  \/ \E b \in BOOLEAN : SetAutoClear(b)
  \/ \E mesh \in Meshes, b \in BOOLEAN : SetVisible(mesh, b)

SpecGLClear == Init /\ [][NextGLClear]_vars

\* The application flips material.transparent, material.depthTest or
\* material.depthWrite.
SetFlag(mat, field) ==
  /\ flags' = [flags EXCEPT ![mat][field] = ~@]
  /\ calls' = <<>>
  /\ UNCHANGED <<samples, glState, caches, dispose, made, released, content, disposed, needsUpdate,
                 sceneVars, packVars, sortVars, shader, uniforms, treeVars, stageVars, passVars, frameVars>>

\* material.side = side
SetSide(mat, side) ==
  /\ flags[mat].side /= side
  /\ flags' = [flags EXCEPT ![mat].side = side]
  /\ calls' = <<>>
  /\ UNCHANGED <<samples, glState, caches, dispose, made, released, content, disposed, needsUpdate,
                 sceneVars, packVars, sortVars, shader, uniforms, treeVars, stageVars, passVars, frameVars>>

\* Frames of the scene while the materials' depth flags and sides change.
NextGLState ==
  \/ GLRender(FALSE)
  \/ \E mat \in Mats, field \in {"depthTest", "depthWrite"} : SetFlag(mat, field)
  \/ \E mat \in Mats, side \in {"front", "back", "both"} : SetSide(mat, side)

SpecGLState == Init /\ [][NextGLState]_vars

\* geometry.drawRange = { start, count }
SetDrawRange(g, start, count) ==
  /\ drawRange[g] /= [start |-> start, count |-> count]
  /\ drawRange' = [drawRange EXCEPT ![g] = [start |-> start, count |-> count]]
  /\ calls' = <<>>
  /\ renderList' = <<>>
  /\ UNCHANGED <<samples, glState, caches, dispose, made, released, content, disposed, needsUpdate,
                 sceneVars, packVars, nodes, gpuVars, treeVars, stageVars,
                 autoClear, position, matrixAutoUpdate, transform, textureUniforms,
                 frameVars>>

\* The application deletes every attribute of the geometry: its vertices
\* are computed in the shader.
RemoveAttributes(g) ==
  /\ attributes[g] /= <<>>
  /\ attributes' = [attributes EXCEPT ![g] = <<>>]
  /\ calls' = <<>>
  /\ renderList' = <<>>
  /\ UNCHANGED <<samples, glState, caches, dispose, made, released, content, disposed, needsUpdate,
                 geometry, material, packVars, nodes, gpuVars, treeVars, stageVars, passVars, frameVars>>

StartChoices == {0, 1}
CountChoices == {<<>>, <<3>>, <<6>>}

\* Frames without a camera while draw ranges are set and attributes removed.
NextGLDraw ==
  \/ GLRender(FALSE)
  \/ \E g \in Geoms, start \in StartChoices, count \in CountChoices : SetDrawRange(g, start, count)
  \/ \E g \in Geoms : RemoveAttributes(g)

SpecGLDraw == Init /\ [][NextGLDraw]_vars

-----------------------------------------------------------------------------
(***************************************************************************)
(* WebGPURenderer: compiling a mesh inside a render pass (pipeline, vertex *)
(* and index buffers, uniform buffer, bind group).  No render target is    *)
(* set.  A shader source stands for the member list of its uniform struct. *)
(***************************************************************************)
ShaderSources == {"s1", "s2", "s3"}

\* parseUniforms(material.vertex, material.fragment, material.compute) of
\* the three sources.
ParseUniforms(src) ==
  CASE src = "s1" -> <<"time", "color">>
    [] src = "s2" -> <<"color", "time", "uv">>
    [] src = "s3" -> <<"color", "modelMatrix">>

\* The fragment sources: the three, and one that declares no uniform
\* struct.
FragmentSources == ShaderSources \cup {"none"}

\* parseUniforms(shader) of one source: <<>> is undefined.
ParseShader(src) == IF src = "none" THEN <<>> ELSE ParseUniforms(src)

\* Boolean(definition)
IsDefined(definition) == definition /= <<>>

\* Array.prototype.sort with (a, b) => b.length - a.length, which is
\* stable: x goes behind the definitions that are not shorter.
RECURSIVE InsertByLength(_, _)
InsertByLength(sorted, x) ==
  IF sorted = <<>> \/ Len(x) - Len(Head(sorted)) > 0
    THEN <<x>> \o sorted
    ELSE <<Head(sorted)>> \o InsertByLength(Tail(sorted), x)

RECURSIVE SortByLength(_, _)
SortByLength(list, sorted) ==
  IF list = <<>> THEN sorted ELSE SortByLength(Tail(list), InsertByLength(sorted, Head(list)))

\* parseUniforms(...shaders), mutated: the first definition, unsorted.
ParseUniformsFirst(shaders) ==
  LET definitions == SelectSeq([k \in 1..Len(shaders) |-> ParseShader(shaders[k])], IsDefined)
  IN  IF definitions = <<>> THEN <<>> ELSE definitions[1]

\* parseUniforms(...shaders): the most complete definition of the shaders,
\* <<>> for undefined.
ParseUniformsOf(shaders) ==
  LET definitions == SelectSeq([k \in 1..Len(shaders) |-> ParseShader(shaders[k])], IsDefined)
  IN  IF definitions = <<>> THEN <<>> ELSE SortByLength(definitions, <<>>)[1]

\* The sources compile hands to parseUniforms, without the empty ones:
\* vertex and fragment, or the compute source of a compute material.
Stages(mat) == IF compute[mat] THEN <<shader[mat]>> ELSE <<shader[mat], fragment[mat]>>

\* parsed of compile(mesh)
Parsed(mat) == ParseUniformsOf(Stages(mat))

\* material.uniforms[key] at a version of the material's values: time is a
\* number, uv a vec2, color a vec4 and modelMatrix a mat4.
UniformOf(key, version) ==
  CASE key = "time" -> Number(10 + version)
    [] key = "uv" -> Array(2, 20 + version)
    [] key = "color" -> Array(4, 30 + version)
    [] key = "modelMatrix" -> Array(16, 40 + version)

\* parsed.map((key) => mesh.material.uniforms[key])
UniformList(mat) ==
  [k \in 1..Len(Parsed(mat)) |-> UniformOf(Parsed(mat)[k], uniforms[mat])]

\* The uniform schema of a material: names, shapes and order.
Schema(mat) ==
  [k \in 1..Len(Parsed(mat)) |-> [key |-> Parsed(mat)[k], n |-> UniformList(mat)[k].n]]

GPU_CULL_SIDES(side) ==
  CASE side = "front" -> "back"
    [] side = "back" -> "front"
    [] side = "both" -> "none"

GPU_DRAW_MODES(mode) ==
  CASE mode = "points" -> "point-list"
    [] mode = "lines" -> "line-list"
    [] mode = "triangles" -> "triangle-list"

\* mesh.mode
Mode(mesh) == "triangles"

\* The attributes are Float32Array data of item size 3 without a divisor.
AttributeInfo(attribute) == [size |-> 3, bytes |-> 4, float |-> TRUE, divisor |-> 0]


\* The first loop of compile: the vertex buffer layouts.
RECURSIVE VertexLayout(_, _)
VertexLayout(attrs, shaderLocation) ==
  IF attrs = <<>>
    THEN <<>>
    ELSE IF Head(attrs).key = "index"
           THEN VertexLayout(Tail(attrs), shaderLocation)
           ELSE LET a == AttributeInfo(Head(attrs).attr)
                IN  <<[arrayStride |-> a.size * a.bytes * (IF a.divisor = 0 THEN 1 ELSE a.divisor),
                       stepMode |-> IF a.divisor = 0 THEN "vertex" ELSE "instance",
                       shaderLocation |-> shaderLocation,
                       offset |-> 0,
                       format |-> <<IF a.float THEN "float" ELSE "uint", a.bytes * 8,
                                    Min(a.size, 4)>>]>>
                    \o VertexLayout(Tail(attrs), shaderLocation + 1)

\* JSON.stringify of a boolean, and of material.blending (undefined in an
\* array is written as null).
JSONBoolean(b) == IF b THEN "true" ELSE "false"
JSONBlending(b) == IF b = "undefined" THEN "null" ELSE b

\* pipelineCacheKey, mutated: the key leaves out material.transparent.
PipelineKeyOpaque(mesh, colorAttachments, count) ==
  LET m == flags[material[mesh]]
  IN  <<GPU_CULL_SIDES(m.side), GPU_DRAW_MODES(Mode(mesh)),
        JSONBoolean(m.depthWrite), IF m.depthTest THEN "less" ELSE "always",
        VertexLayout(attributes[geometry[mesh]], 0), JSONBlending(m.blending), colorAttachments, count>>

\* pipelineCacheKey
PipelineKey(mesh, colorAttachments, count) ==
  LET m == flags[material[mesh]]
  IN  <<JSONBoolean(m.transparent), GPU_CULL_SIDES(m.side), GPU_DRAW_MODES(Mode(mesh)),
        JSONBoolean(m.depthWrite), IF m.depthTest THEN "less" ELSE "always",
        VertexLayout(attributes[geometry[mesh]], 0), JSONBlending(m.blending), colorAttachments, count>>

\* The pipeline part of compile. The handle keeps the label and, besides,
\* the material state it was created from.
GPUCompilePipeline(st, mesh) ==
  LET pipeline == GetIn(st, "_pipelines", mesh)
      pipelineCacheKey == PipelineKey(mesh, st.colorAttachments, st.samples)
  IN  IF compute[material[mesh]]
        THEN IF pipeline = <<>>
               THEN LET c == CreateLabeled(st, "computePipeline", "", mesh, FALSE, <<>>)
                    IN  Call(c, "setPipeline", mesh, Last(c))
               ELSE Call(st, "setPipeline", mesh, pipeline[1])
        ELSE LET s1 == IF pipeline = <<>> \/ st.made[pipeline[1]].label.key /= pipelineCacheKey
                         THEN CreateLabeled(st, "pipeline", "_pipelines", mesh, FALSE,
                                            [key |-> pipelineCacheKey, state |-> flags[material[mesh]],
                                             vertex |-> shader[material[mesh]],
                                             fragment |-> fragment[material[mesh]]])
                         ELSE st
                 p  == IF pipeline = <<>> \/ st.made[pipeline[1]].label.key /= pipelineCacheKey
                         THEN Last(s1) ELSE pipeline[1]
             IN  Call(CompiledSet(s1, "_pipelines", mesh, p, <<>>), "setPipeline", mesh, p)

\* The second loop of compile: the attributes' buffers.
RECURSIVE GPUCompileAttributes(_, _)
GPUCompileAttributes(st, attrs) ==
  IF attrs = <<>>
    THEN st
    ELSE LET attribute == Head(attrs).attr
             s1 == IF GetIn(st, "_buffers", attribute) = <<>>
                     THEN LET c == Create(st, "buffer", "_buffers", attribute, FALSE)
                          IN  CompiledSet(c, "_buffers", attribute, Last(c), <<>>)
                     ELSE st
             buffer == GetIn(s1, "_buffers", attribute)[1]
             s2 == IF s1.needsUpdate[attribute]
                     THEN Call(s1, "writeBuffer", attribute, buffer)
                     ELSE s1
             s3 == [s2 EXCEPT !.needsUpdate[attribute] = FALSE]
         IN  GPUCompileAttributes(
               Call(s3, IF Head(attrs).key = "index" THEN "setIndexBuffer" ELSE "setVertexBuffer",
                    attribute, buffer),
               Tail(attrs))

\* The uniform part of compile. `thrown` is the RangeError of std140.
GPUCompileUniforms(st, mesh) ==
  LET list == UniformList(material[mesh])
      UBO  == GetIn(st, "_UBOs", mesh)
  IN  IF UBO = <<>>
        THEN LET r  == Std140(list)
                 s1 == CreateLabeled(st, "Float32Array", "", mesh, FALSE, <<>>)
                 data == Last(s1)
                 s2 == [s1 EXCEPT !.content[data] = r.data]
                 s3 == CreateLabeled(s2, "uniformBuffer", "_UBOs", material[mesh], TRUE,
                                     [mesh |-> mesh, data |-> data,
                                      schema |-> Schema(material[mesh])])
                 buffer == Last(s3)
                 s4 == [s3 EXCEPT !.content[buffer] = r.data]
                 s5 == CompiledSet(s4, "_UBOs", mesh, [data |-> data, buffer |-> buffer], <<>>)
                 s6 == CompiledSet(s5, "_UBOs", material[mesh], [data |-> data, buffer |-> buffer],
                                   <<GPUUniformFn(mesh, buffer)>>)
             IN  [st |-> s6, thrown |-> FALSE]
        ELSE LET r  == Std140Into(list, st.content[UBO[1].data])
                 s1 == [st EXCEPT !.content[UBO[1].data] = r.data]
             IN  IF r.thrown
                   THEN [st |-> Call(s1, "throw", mesh, UBO[1].data), thrown |-> TRUE]
                   ELSE [st |-> Call([s1 EXCEPT !.content[UBO[1].buffer] = r.data],
                                     "writeBuffer", mesh, UBO[1].buffer),
                         thrown |-> FALSE]

\* WebGPURenderer._updateSampler
GPUUpdateSampler(st, sampler) ==
  IF GetIn(st, "_samplers", sampler) = <<>> \/ st.needsUpdate[sampler]
    THEN LET c == Create(st, "sampler", "_samplers", sampler, FALSE)
         IN  CompiledSet(c, "_samplers", sampler, Last(c), <<>>)
    ELSE st

\* The branch of _updateTexture that makes a target on the heap d: an
\* external texture of a video, or a texture the image, if there is one,
\* is copied to; only the latter clears the flag.
GPUCreateTexture(d, texture) ==
  IF image[texture] = "video"
    THEN CompiledSet(Create(d, "externalTexture", "_textures", texture, FALSE),
                     "_textures", texture, Len(d.made) + 1, <<NoDestroyFn>>)
    ELSE CompiledSet([(IF image[texture] = "bitmap"
                         THEN Call(Create(d, "texture", "_textures", texture, TRUE),
                                   "copyExternalImageToTexture", texture, Len(d.made) + 1)
                         ELSE Create(d, "texture", "_textures", texture, TRUE))
                        EXCEPT !.needsUpdate[texture] = FALSE],
                     "_textures", texture, Len(d.made) + 1, <<ReleaseFn(Len(d.made) + 1)>>)

\* WebGPURenderer._updateTexture
GPUUpdateTexture(st, texture) ==
  GPUUpdateSampler(IF GetIn(st, "_textures", texture) = <<>> \/ st.needsUpdate[texture]
                     THEN GPUCreateTexture(CallDispose(st, texture, st.dispose[texture]), texture)
                     ELSE st,
                   SamplerOf(texture))

\* The names of the storage buffers the compute source declares: one,
\* bound to the position attribute.
StorageOf(mat) == IF compute[mat] THEN <<"position">> ELSE <<>>

\* The entries of the storage buffers, numbered from binding 0.
GPUStorageEntries(st, mesh) ==
  [k \in 1..Len(StorageOf(material[mesh])) |->
     LET attribute == AttributeOf(geometry[mesh], StorageOf(material[mesh])[k])
     IN  [binding |-> k - 1, kind |-> "storage",
          h |-> IF attribute = <<>> THEN 0 ELSE GetIn(st, "_buffers", attribute[1])[1]]]

\* The entries of a texture uniform, mutated: the texture comes first.
TextureEntriesSwapped(binding, sampler, target) ==
  <<[binding |-> binding, kind |-> "texture", h |-> target]>>
    \o (IF sampler /= <<>>
          THEN <<[binding |-> binding + 1, kind |-> "sampler", h |-> sampler[1]]>>
          ELSE <<>>)

\* The entries of a texture uniform: its sampler, if it is cached, and the
\* texture, each with binding++.
TextureEntries(binding, sampler, target) ==
  (IF sampler /= <<>>
     THEN <<[binding |-> binding, kind |-> "sampler", h |-> sampler[1]]>>
     ELSE <<>>)
    \o <<[binding |-> binding + (IF sampler /= <<>> THEN 1 ELSE 0), kind |-> "texture",
          h |-> target]>>

\* The entries of a texture uniform appended on the heap s1 its texture was
\* updated in.
GPUPushTexture(s1, texture, entries) ==
  [st |-> s1,
   entries |-> entries \o TextureEntries(Len(entries), GetIn(s1, "_samplers", SamplerOf(texture)),
                                         GetIn(s1, "_textures", texture)[1])]

\* for (const key in mesh.material.uniforms): the texture uniforms are
\* updated and their entries appended; step[i] is the heap and the entries
\* after the i-th texture.
GPUCompileTextures(st, textures, entries) ==
  LET step[i \in 0..Len(textures)] ==
        IF i = 0
          THEN [st |-> st, entries |-> entries]
          ELSE GPUPushTexture(GPUUpdateTexture(step[i - 1].st, textures[i]), textures[i],
                              step[i - 1].entries)
  IN  step[Len(textures)]

\* The bind group of compile(mesh) on the heap st the uniform buffer was
\* updated in: the entries in the order of their bindings, then
\* createBindGroup and setBindGroup.
GPUBind(st, mesh) ==
  LET storage == GPUStorageEntries(st, mesh)
      UBO == [binding |-> Len(storage), kind |-> "uniform",
              h |-> GetIn(st, "_UBOs", mesh)[1].buffer]
  IN  CHOOSE r \in
        {Call(Call(t.st, "createBindGroup", mesh, t.entries), "setBindGroup", mesh, 0)
           : t \in {GPUCompileTextures(st, textureUniforms[material[mesh]], storage \o <<UBO>>)}} : TRUE

\* An upper bound of the handles compile(mesh) creates in this state.
GPUCompileHandles(mesh) ==
  (IF Get("_pipelines", mesh) = <<>>
      \/ (~compute[material[mesh]]
            /\ made[Get("_pipelines", mesh)[1]].label.key /= PipelineKey(mesh, 1, samples))
     THEN 1 ELSE 0)
  + Cardinality({i \in 1..Len(attributes[geometry[mesh]]) :
                   Get("_buffers", attributes[geometry[mesh]][i].attr) = <<>>})
  + (IF Get("_UBOs", mesh) = <<>> THEN 2 ELSE 0)
  + 2 * Len(textureUniforms[material[mesh]])

\* WebGPURenderer.compile(mesh) on a heap: `thrown` is the exception.
GPUCompileOn(st, mesh) ==
  LET s0 == Call(st, "compile", mesh, 0)
      s1 == GPUCompilePipeline(s0, mesh)
      s2 == GPUCompileAttributes(s1, attributes[geometry[mesh]])
      s3 == IF GetIn(s2, "_geometry", geometry[mesh]) = <<>>
              THEN CompiledSet(s2, "_geometry", geometry[mesh], TRUE, <<GPUGeometryFn(mesh)>>)
              ELSE s2
      u  == GPUCompileUniforms(s3, mesh)
  IN  IF u.thrown
        THEN u
        ELSE [st |-> CHOOSE r \in {GPUBind(s4, mesh) : s4 \in {u.st}} : TRUE,
              thrown |-> FALSE]

\* WebGPURenderer.compile(mesh)
GPUCompile(mesh, MaxMade) ==
  /\ Len(made) + GPUCompileHandles(mesh) <= MaxMade
  /\ Commit(GPUCompileOn(Heap, mesh).st)
  /\ UNCHANGED <<disposed, sceneVars, packVars, sortVars, flags, shader, uniforms, treeVars, stageVars, passVars, frameVars>>

\* The application changes the values of material.uniforms.
SetUniforms(mat) ==
  /\ uniforms[mat] < MaxVersion
  /\ uniforms' = [uniforms EXCEPT ![mat] = @ + 1]
  /\ calls' = <<>>
  /\ UNCHANGED <<samples, glState, caches, dispose, made, released, content, disposed, needsUpdate,
                 sceneVars, packVars, sortVars, flags, shader, treeVars, stageVars, passVars, frameVars>>

\* The application replaces the material's shader source.
SetShader(mat, src) ==
  /\ shader[mat] /= src
  /\ shader' = [shader EXCEPT ![mat] = src]
  /\ calls' = <<>>
  /\ UNCHANGED <<samples, glState, caches, dispose, made, released, content, disposed, needsUpdate,
                 sceneVars, packVars, sortVars, flags, uniforms, treeVars, stageVars, passVars, frameVars>>

\* mesh.material = mat
SetMaterial(mesh, mat) ==
  /\ material[mesh] /= mat
  /\ material' = [material EXCEPT ![mesh] = mat]
  /\ calls' = <<>>
  /\ UNCHANGED <<samples, glState, caches, dispose, made, released, content, disposed, needsUpdate,
                 geometry, attributes, packVars, sortVars, gpuVars, treeVars, stageVars, passVars, frameVars>>

\* mesh.geometry = g
SetGeometry(mesh, g) ==
  /\ geometry[mesh] /= g
  /\ geometry' = [geometry EXCEPT ![mesh] = g]
  /\ calls' = <<>>
  /\ UNCHANGED <<samples, glState, caches, dispose, made, released, content, disposed, needsUpdate,
                 material, attributes, packVars, sortVars, gpuVars, treeVars, stageVars, passVars, frameVars>>

\* The meshes compiled while they are given other geometries and the
\* geometries are disposed.
NextGPUGeometry ==
  \/ \E mesh \in Meshes : GPUCompile(mesh, MaxGeometryHandles)
  \/ \E mesh \in Meshes, g \in Geoms : SetGeometry(mesh, g)
  \/ \E g \in Geoms : Dispose(g)

SpecGPUGeometry == Init /\ [][NextGPUGeometry]_vars

\* Two meshes compiled while the materials' render state changes.
NextGPUPipeline ==
  \/ \E mesh \in Meshes : GPUCompile(mesh, MaxPipelineHandles)
  \/ \E mat \in Mats, field \in {"transparent", "depthTest"} : SetFlag(mat, field)

SpecGPUPipeline == Init /\ [][NextGPUPipeline]_vars

\* One mesh compiled while its material and the materials' values change
\* and materials are disposed; the shaders stay as they are.
UniformMesh == <<"mesh", 1>>

NextGPUUniform ==
  \/ GPUCompile(UniformMesh, MaxUniformHandles)
  \/ \E mat \in Mats : SetMaterial(UniformMesh, mat)
  \/ \E mat \in Mats : SetUniforms(mat)
  \/ \E mat \in Mats : Dispose(mat)

SpecGPUUniform == Init /\ [][NextGPUUniform]_vars

\* One mesh compiled while its material and the materials' shaders and
\* values change.
NextGPUSchema ==
  \/ GPUCompile(UniformMesh, MaxUniformHandles)
  \/ \E mat \in Mats : SetMaterial(UniformMesh, mat)
  \/ \E mat \in Mats, src \in ShaderSources : SetShader(mat, src)
  \/ \E mat \in Mats : SetUniforms(mat)

SpecGPUSchema == Init /\ [][NextGPUSchema]_vars

\* One mesh compiled while it is given the other material, and the
\* material it does not have gets other shaders.
NextGPUMaterial ==
  \/ GPUCompile(UniformMesh, MaxMaterialHandles)
  \/ \E mat \in Mats : SetMaterial(UniformMesh, mat)
  \/ \E mat \in Mats \ {material[UniformMesh]}, src \in ShaderSources : SetShader(mat, src)

SpecGPUMaterial == Init /\ [][NextGPUMaterial]_vars

\* The application replaces material.fragment.
SetFragment(mat, src) ==
  /\ fragment[mat] /= src
  /\ fragment' = [fragment EXCEPT ![mat] = src]
  /\ calls' = <<>>
  /\ UNCHANGED <<samples, glState, caches, dispose, made, released, content, disposed, needsUpdate,
                 sceneVars, packVars, sortVars, gpuVars, treeVars, stageVars, passVars, image>>

\* One mesh compiled while the vertex and the fragment source of its
\* material change and the material is disposed.
NextGPUStages ==
  \/ GPUCompile(UniformMesh, MaxStageHandles)
  \/ \E src \in ShaderSources : SetShader(material[UniformMesh], src)
  \/ \E src \in FragmentSources : SetFragment(material[UniformMesh], src)
  \/ Dispose(material[UniformMesh])

SpecGPUStages == Init /\ [][NextGPUStages]_vars

\* The texture values of the uniforms: none, one texture, or the texture
\* under two keys.
TextureChoices == {<<>>, << <<"tex", 1>> >>, << <<"tex", 1>>, <<"tex", 1>> >>}

\* One mesh compiled while its material becomes a compute material and its
\* uniforms get textures.
NextGPUBind ==
  \/ GPUCompile(UniformMesh, MaxBindHandles)
  \/ \E b \in BOOLEAN : SetCompute(material[UniformMesh], b)
  \/ \E textures \in TextureChoices : SetTextureUniforms(material[UniformMesh], textures)

SpecGPUBind == Init /\ [][NextGPUBind]_vars

\* The value WebGLRenderer.compile(mesh) returns, read in the state the call
\* leaves: the pair stored for the mesh by its first compile.
GLCompileReturn(mesh) == Get("_compiled", mesh)[1]

\* One mesh compiled by the WebGL renderer while it is given other
\* materials and geometries, and the ones it has are disposed.
ProgramMesh == <<"mesh", 1>>

NextGLProgram ==
  \/ GLCompileWithin(ProgramMesh, MaxProgramHandles)
  \/ \E mat \in Mats : SetMaterial(ProgramMesh, mat)
  \/ \E g \in Geoms : SetGeometry(ProgramMesh, g)
  \/ Dispose(material[ProgramMesh])
  \/ Dispose(geometry[ProgramMesh])

SpecGLProgram == Init /\ [][NextGLProgram]_vars

-----------------------------------------------------------------------------
(***************************************************************************)
(* WebGPURenderer.render and WebGPURenderer.compute.  No render target is  *)
(* set and the swapchain has the renderer's sample count.                  *)
(***************************************************************************)

\* draw or drawIndexed on the pass encoder
GPUDraw(st, node) == Call(st, "draw", node, 0)

\* for (const node of renderList): an exception of compile leaves the loop
\* and render; `thrown` tells so.
RECURSIVE GPURenderLoop(_, _)
RECURSIVE GPURenderNext(_, _)
GPURenderLoop(st, list) ==
  IF list = <<>>
    THEN [st |-> st, thrown |-> FALSE]
    ELSE GPURenderNext(GPUCompileOn(st, Head(list)), list)

\* The rest of the loop after compile returned c for the head of the list.
GPURenderNext(c, list) ==
  IF c.thrown
    THEN c
    ELSE GPURenderLoop(GPUDraw(c.st, Head(list)), Tail(list))

\* An upper bound of the handles a frame creates in this state.
RECURSIVE GPURenderHandles(_)
GPURenderHandles(list) ==
  IF list = <<>> THEN 0 ELSE GPUCompileHandles(Head(list)) + GPURenderHandles(Tail(list))

\* passEncoder.end() and queue.submit, which an exception of the loop l
\* skips.
GPUEndPass(l) ==
  IF l.thrown
    THEN l.st
    ELSE Call(Call(l.st, "end", Scene, 0), "submit", Scene, 0)

\* WebGPURenderer.render(scene, camera?)
GPURender(camera) ==
  /\ Len(made) + GPURenderHandles(SortScene(camera).list) <= MaxFrameHandles
  /\ LET s0 == Call(Call(Call(Call(Heap, "render", Scene, 0), "createCommandEncoder", Scene, 0),
                         "beginRenderPass", Scene, 0), "setViewport", Scene, 0)
     IN  Commit(GPUEndPass(GPURenderLoop(s0, SortScene(camera).list)))
  /\ renderList' = <<[camera |-> camera] @@ SortScene(camera)>>
  /\ UNCHANGED <<disposed, sceneVars, packVars, nodes, gpuVars, treeVars, stageVars, passVars, frameVars>>

\* WebGPURenderer.compute(node): reading the workgroup count of a material
\* without a compute stage is a TypeError.
GPUCompute(node) ==
  /\ Len(made) + GPUCompileHandles(node) <= MaxFrameHandles
  /\ LET s0 == Call(Call(Call(Heap, "compute", node, 0), "createCommandEncoder", node, 0),
                    "beginComputePass", node, 0)
         c  == GPUCompileOn(s0, node)
     IN  Commit(IF ~compute[material[node]]
                  THEN Call(s0, "throw", node, 0)
                  ELSE IF c.thrown
                         THEN c.st
                         ELSE Call(Call(Call(c.st, "dispatchWorkgroups", node, 0),
                                        "end", node, 0), "submit", node, 0))
  /\ renderList' = <<>>
  /\ UNCHANGED <<disposed, sceneVars, packVars, nodes, gpuVars, treeVars, stageVars, passVars, frameVars>>

\* The sources of the frames: the second declares a larger uniform block.
FrameSources == {"s1", "s3"}

NextGPURender ==
  \/ \E camera \in BOOLEAN : GPURender(camera)
  \/ \E node \in Meshes : GPUCompute(node)
  \/ \E mat \in Mats, src \in FrameSources : SetShader(mat, src)
  \/ \E mat \in Mats, b \in BOOLEAN : SetCompute(mat, b)

SpecGPURender == Init /\ [][NextGPURender]_vars

-----------------------------------------------------------------------------
(***************************************************************************)
(* WebGPURenderer.render into a render target: the frames of a scene       *)
(* without meshes, after setRenderTarget(rt).                              *)
(***************************************************************************)

\* renderTarget.textures.map(...): every texture is updated and viewed.
RECURSIVE GPUTargetViews(_, _)
GPUTargetViews(st, textures) ==
  IF textures = <<>>
    THEN st
    ELSE LET s1 == GPUUpdateTexture(st, Head(textures))
         IN  GPUTargetViews(Call(s1, "createView", Head(textures),
                                 GetIn(s1, "_textures", Head(textures))[1]),
                            Tail(textures))

\* "Compile render target", the first part of render.
GPUCompileTarget(st, rt) ==
  LET FBO == GetIn(st, "_FBOs", rt)
  IN  IF FBO = <<>> \/ st.needsUpdate[rt]
        THEN LET s1 == IF FBO /= <<>> THEN Release(st, FBO[1].depthTexture) ELSE st
                 s2 == GPUTargetViews(s1, TexturesOf(rt))
                 s3 == Create(s2, "depthTexture", "_FBOs", rt, TRUE)
             IN  CompiledSet(s3, "_FBOs", rt, [depthTexture |-> Last(s3)],
                             <<ReleaseFn(Last(s3))>>)
        ELSE st

\* An upper bound of the handles the frame creates in this state.
GPUTargetHandles(rt) ==
  IF Get("_FBOs", rt) = <<>> \/ needsUpdate[rt] THEN 1 + 2 * RTCount ELSE 0

\* WebGPURenderer.render(scene) while this._renderTarget is rt
GPURenderTo(rt) ==
  /\ Len(made) + GPUTargetHandles(rt) <= MaxGPUTargetHandles
  /\ LET s0 == GPUCompileTarget(Call(Heap, "render", rt, 0), rt)
         s1 == Call(Call(Call(s0, "createCommandEncoder", rt, 0), "beginRenderPass", rt, 0),
                    "setViewport", rt, 0)
     IN  Commit(Call(Call(s1, "end", rt, 0), "submit", rt, 0))
  /\ renderList' = <<>>
  /\ UNCHANGED <<disposed, sceneVars, packVars, nodes, gpuVars, treeVars, stageVars, passVars, frameVars>>

NextGPUTarget ==
  \/ \E rt \in RTs : GPURenderTo(rt)
  \/ \E rt \in RTs : RTSetSize(rt)
  \/ \E o \in RTs \cup Texs : Dispose(o)

SpecGPUTarget == Init /\ [][NextGPUTarget]_vars

\* The end of a frame into a render target: passEncoder.end(), queue.submit
\* and this.samples = samples, all of which an exception of the loop l
\* skips.
GPUEndTargetPass(l, count) ==
  IF l.thrown
    THEN l.st
    ELSE [GPUEndPass(l) EXCEPT !.samples = count]

\* WebGPURenderer.render(scene, camera?) while this._renderTarget is rt:
\* the frame is drawn with this.samples = 1 and the target's count of color
\* attachments.
GPURenderInto(rt, camera) ==
  /\ Len(made) + GPUTargetHandles(rt) + GPURenderHandles(SortScene(camera).list)
       + Len(SortScene(camera).list) <= MaxOffscreenHandles
  /\ LET s0 == GPUCompileTarget(Call(Heap, "render", rt, 0), rt)
         s1 == Call(Call(Call([s0 EXCEPT !.samples = 1, !.colorAttachments = RTCount], "createCommandEncoder", rt, 0),
                         "beginRenderPass", rt, 0), "setViewport", rt, 0)
     IN  Commit(GPUEndTargetPass(GPURenderLoop(s1, SortScene(camera).list), samples))
  /\ renderList' = <<[camera |-> camera] @@ SortScene(camera)>>
  /\ UNCHANGED <<disposed, sceneVars, packVars, nodes, gpuVars, treeVars, stageVars, passVars, frameVars>>

\* The render target of the offscreen frames.
OffscreenTarget == <<"rt", 1>>

\* Frames into the render target and into the canvas while the materials'
\* shaders change.
NextGPUOffscreen ==
  \/ GPURenderInto(OffscreenTarget, FALSE)
  \/ GPURender(FALSE)
  \/ \E mat \in Mats, src \in FrameSources : SetShader(mat, src)

SpecGPUOffscreen == Init /\ [][NextGPUOffscreen]_vars

-----------------------------------------------------------------------------
\* Registrations of object o in cache c so far.
Regs(c, o) == {h \in 1..Len(made) : made[h].c = c /\ made[h].o = o}

\* C1: an object registered once in a cache with a disposer: before its
\* first dispose() the handle is unreleased and cached; after one or more
\* dispose() calls the disposer has run exactly once and the entry is gone.
C1_DisposeOnce ==
  \A h \in 1..Len(made) :
    (made[h].kind = "generic" /\ made[h].disp /\ Regs(made[h].c, made[h].o) = {h}) =>
      /\ disposed[made[h].o] = made[h].epoch =>
           released[h] = 0 /\ Get(made[h].c, made[h].o) = <<h>>
      /\ disposed[made[h].o] > made[h].epoch =>
           released[h] = 1 /\ Get(made[h].c, made[h].o) = <<>>

C1_Witness ==
  \E h \in 1..Len(made) :
    /\ made[h].kind = "generic" /\ made[h].disp /\ Regs(made[h].c, made[h].o) = {h}
    /\ disposed[made[h].o] >= made[h].epoch + 2
    /\ released[h] = 1

\* The disposers registered on o since the dispose() call before the last one.
LastRegs(o) ==
  {h \in 1..Len(made) : made[h].o = o /\ made[h].disp /\ made[h].epoch = disposed[o] - 1}

\* C4: right after o.dispose(), the calls made are: every disposer registered
\* on o once, the most recently registered first, then the original dispose
\* once, then the cache deletions; o is in none of the registering caches.
C4_ChainOrder ==
  \A o \in Objs :
    (\E i \in 1..Len(calls) : calls[i].ev = "orig" /\ calls[i].o = o) =>
      LET hs == LastRegs(o)
          n  == Cardinality(hs)
      IN  /\ Len(calls) = 2 * n + 1
          /\ calls[n + 1].ev = "orig"
          /\ \A i \in 1..n : calls[i].ev = "release" /\ calls[i].h \in hs
          /\ \A i, j \in 1..n : i < j => calls[i].h > calls[j].h
          /\ \A i \in (n + 2)..(2 * n + 1) : calls[i].ev = "delete" /\ calls[i].o = o
          /\ \A h \in hs : Get(made[h].c, o) = <<>> /\ released[h] = 1

C4_Witness ==
  \E o \in Objs :
    /\ Len(calls) = 5
    /\ calls[3].ev = "orig" /\ calls[3].o = o
    /\ calls[1].ev = "release" /\ calls[2].ev = "release"
    /\ made[calls[1].h].c /= made[calls[2].h].c

\* C2: no framebuffer object is released more than once.
C2_ReleasedAtMostOnce ==
  \A h \in 1..Len(made) : made[h].kind = "framebuffer" => released[h] <= 1

\* The attribute objects of geometry g.
AttrsOf(g) == {attributes[g][i].attr : i \in 1..Len(attributes[g])}

\* C3: right after Geometry.dispose() every handle created for the geometry
\* and its attributes has been released, and no cache maps them.
C3_GeometryReleased ==
  \A g \in Geoms :
    (\E i \in 1..Len(calls) : calls[i].ev = "orig" /\ calls[i].o = g) =>
      /\ Get("_geometry", g) = <<>>
      /\ \A a \in AttrsOf(g) : Get("_buffers", a) = <<>>
      /\ \A h \in 1..Len(made) : made[h].o \in {g} \cup AttrsOf(g) => released[h] >= 1

\* The slots a value takes.
Slots(value) == IF value.n = 0 THEN 1 ELSE value.n

\* C7: in the buffer std140 allocates and fills, 2-component values sit at
\* even offsets, values of 3 or more components at multiples of 4, the values
\* are in list order in disjoint slot ranges inside the buffer, the length
\* is a multiple of 4, and {number, 2-vector, 4-vector} gives offsets
\* 0, 2, 4 and length 8.
C7_Std140Layout ==
  packed /= <<>> =>
    LET r == packed[1]
    IN  /\ ~r.thrown
        /\ Len(r.at) = Len(values)
        /\ Len(r.data) % 4 = 0
        /\ \A i \in 1..Len(values) :
             /\ values[i].n = 2 => r.at[i] % 2 = 0
             /\ values[i].n >= 3 => r.at[i] % 4 = 0
             /\ r.at[i] + Slots(values[i]) <= Len(r.data)
             /\ \A j \in 1..Slots(values[i]) : r.data[r.at[i] + j] = Component(values[i], j)
        /\ \A i, j \in 1..Len(values) : i < j => r.at[i] + Slots(values[i]) <= r.at[j]
        /\ (Len(values) = 3 /\ values[1].n = 0 /\ values[2].n = 2 /\ values[3].n = 4) =>
             (r.at = <<0, 2, 4>> /\ Len(r.data) = 8)

C7_Witness ==
  /\ packed /= <<>>
  /\ Len(values) = 3 /\ values[1].n = 0 /\ values[2].n = 2 /\ values[3].n = 4
  /\ packed[1].at = <<0, 2, 4>>
  /\ Len(packed[1].data) = 8

\* The scenario's drawables: A without depth test; B near, C far and opaque,
\* D far and transparent, all three depth-tested.
IsA(m) == ~m.depthTest
IsB(m) == m.depthTest /\ m.z = 1
IsC(m) == m.depthTest /\ m.z = 2 /\ ~m.transparent
IsD(m) == m.depthTest /\ m.z = 2 /\ m.transparent
Scenario ==
  /\ renderList /= <<>> /\ renderList[1].camera /\ Len(nodes) = 4
  /\ \E i, j, k, l \in 1..4 :
       /\ {i, j, k, l} = 1..4
       /\ IsA(nodes[i]) /\ IsB(nodes[j]) /\ IsC(nodes[k]) /\ IsD(nodes[l])

\* C10 as claimed: depth-test-disabled drawables come before depth-tested
\* ones, and A, B, C, D are emitted as [A, C, D, B].
C10_DisabledFirst ==
  renderList /= <<>> =>
    LET l == renderList[1].list
    IN  /\ \A i, j \in 1..Len(l) : (~l[i].depthTest /\ l[j].depthTest) => i < j
        /\ Scenario => (IsA(l[1]) /\ IsC(l[2]) /\ IsD(l[3]) /\ IsB(l[4]))

\* C10 as amended: depth-test-disabled drawables come after depth-tested
\* ones, and A, B, C, D are emitted as [C, D, B, A].
C10_DisabledLast ==
  renderList /= <<>> =>
    LET l == renderList[1].list
    IN  /\ Len(l) = Len(nodes)
        /\ \A i, j \in 1..Len(l) : (~l[i].depthTest /\ l[j].depthTest) => i > j
        /\ Scenario => (IsC(l[1]) /\ IsD(l[2]) /\ IsB(l[3]) /\ IsA(l[4]))

C10_Witness ==
  /\ Scenario
  /\ IsC(renderList[1].list[1]) /\ IsA(renderList[1].list[4])

-----------------------------------------------------------------------------
\* The pipeline cached for a mesh, as a set of handles.
PipelineOf(mesh) == {h \in 1..Len(made) : Get("_pipelines", mesh) = <<h>>}

\* C5: two distinct meshes whose cached pipelines were created for identical
\* pipeline keys are drawn with one and the same pipeline.
C5_SharedPipeline ==
  \A m1, m2 \in Meshes : \A p1 \in PipelineOf(m1), p2 \in PipelineOf(m2) :
    made[p1].label.key = made[p2].label.key => p1 = p2

\* The step is a compile(mesh) call.
CompileStep(mesh) == calls' /= <<>> /\ calls'[1].ev = "compile" /\ calls'[1].o = mesh

\* The pipelines the step creates for the mesh.
NewPipelines(mesh) ==
  {h \in (Len(made) + 1)..Len(made') : made'[h].kind = "pipeline" /\ made'[h].o = mesh}

\* C6: a compile of a mesh creates a pipeline exactly when no pipeline is
\* cached for the mesh or the new key differs from the cached pipeline's
\* label; the new pipeline carries the new key and is the one cached
\* afterwards. A compile after material.transparent was flipped creates one
\* pipeline; a compile with an unchanged key creates none and keeps the
\* cached pipeline.
C6_RecreatedOnKeyChange ==
  [][\A mesh \in Meshes :
       CompileStep(mesh) =>
         LET old == PipelineOf(mesh)
             differs == \A p \in old : made[p].label.key /= PipelineKey(mesh, 1, samples)
             flipped == \E p \in old :
                          made[p].label.state.transparent /= flags[material[mesh]].transparent
         IN  /\ differs => /\ Cardinality(NewPipelines(mesh)) = 1
                           /\ \A h \in NewPipelines(mesh) :
                                /\ made'[h].label.key = PipelineKey(mesh, 1, samples)
                                /\ caches'["_pipelines"][mesh] = <<h>>
             /\ ~differs => /\ NewPipelines(mesh) = {}
                            /\ caches'["_pipelines"][mesh] = caches["_pipelines"][mesh]
             /\ flipped => Cardinality(NewPipelines(mesh)) = 1]_vars

\* A mesh whose pipeline was recreated after transparent was flipped and
\* then reused by the last compile.
C6_Witness ==
  \E mesh \in Meshes : \E p \in PipelineOf(mesh) :
    /\ calls /= <<>> /\ calls[1].ev = "compile" /\ calls[1].o = mesh
    /\ \A i \in 1..Len(calls) : calls[i].ev /= "create"
    /\ made[p].label.state.transparent
    /\ \E q \in 1..(p - 1) :
         made[q].kind = "pipeline" /\ made[q].o = mesh /\ ~made[q].label.state.transparent

\* The uniform buffers allocated for a mesh so far.
UniformBuffers(mesh) ==
  {h \in 1..Len(made) : made[h].kind = "uniformBuffer" /\ made[h].label.mesh = mesh}

\* The last operation was compile(mesh).
LastCompiled(mesh) == calls /= <<>> /\ calls[1].ev = "compile" /\ calls[1].o = mesh

\* C8 as stated: with an unchanged uniform schema no uniform buffer is
\* allocated for a mesh after the first.
C8_NeverReallocated ==
  \A mesh \in Meshes : Cardinality(UniformBuffers(mesh)) <= 1

\* C8, amended: with an unchanged uniform schema, a uniform buffer allocated
\* for a mesh stays the mesh's uniform buffer as long as the material the
\* mesh had at the allocation has not been disposed since: no later buffer
\* is allocated, the buffer is not destroyed, and each compile packs the
\* current values into its array and writes them to the buffer.
C8_ReusedUntilDisposed ==
  \A mesh \in Meshes : \A h \in UniformBuffers(mesh) :
    disposed[made[h].o] = made[h].epoch =>
      /\ \A g \in UniformBuffers(mesh) : g <= h
      /\ Get("_UBOs", mesh) = <<[data |-> made[h].label.data, buffer |-> h]>>
      /\ released[h] = 0
      /\ LastCompiled(mesh) =>
           /\ content[made[h].label.data] = Std140(UniformList(material[mesh])).data
           /\ content[h] = Std140(UniformList(material[mesh])).data

\* A compile after the first packed changed values into the buffer of the
\* first compile.
C8_Witness ==
  \E h \in UniformBuffers(UniformMesh) :
    /\ disposed[made[h].o] = made[h].epoch
    /\ uniforms[material[UniformMesh]] > 1
    /\ \E i \in 1..Len(calls) :
         calls[i].ev = "writeBuffer" /\ calls[i].o = UniformMesh /\ calls[i].h = h

\* C9: after a compile of a mesh, the mesh's uniform array and buffer were
\* allocated for the schema the compile met, at the length of its layout.
C9_AllocatedForSchema ==
  \A mesh \in Meshes :
    LastCompiled(mesh) =>
      \E h \in UniformBuffers(mesh) :
        /\ Get("_UBOs", mesh) = <<[data |-> made[h].label.data, buffer |-> h]>>
        /\ made[h].label.schema = Schema(material[mesh])
        /\ Len(content[made[h].label.data]) = Len(Std140Alloc(UniformList(material[mesh])))

-----------------------------------------------------------------------------
\* The distance of a mesh's origin from the camera.
Distance(m) == IF m.at < 0 THEN -m.at ELSE m.at

\* C11: with a camera, of two depth-tested meshes in the emitted list the
\* one farther from the camera comes first, and of two at the same place the
\* opaque one comes first.
C11_BackToFront ==
  (renderList /= <<>> /\ renderList[1].camera) =>
    LET l == renderList[1].list
    IN  \A i, j \in 1..Len(l) :
          (i < j /\ l[i].depthTest /\ l[j].depthTest) =>
            /\ Distance(l[i]) >= Distance(l[j])
            /\ (l[i].at = l[j].at /\ l[i].transparent) => l[j].transparent

-----------------------------------------------------------------------------
\* The length of a vertex.
VertexLength(v) == Sqrt(v[1] * v[1] + v[2] * v[2] + v[3] * v[3])

\* The largest vertex length of a geometry.
MaxVertexLength(g) ==
  CHOOSE r \in {VertexLength(vertices[g][k]) : k \in 1..Len(vertices[g])} :
    \A k \in 1..Len(vertices[g]) : VertexLength(vertices[g][k]) <= r

\* C14: the radius used by the frustum test is the largest vertex length
\* over all vertices of the position data times the largest scale component.
C14_RadiusOverAllVertices ==
  tested /= <<>> =>
    LET mesh == tested[1].mesh
    IN  tested[1].radius =
          MaxVertexLength(geometry[mesh]) * Max(scale[mesh][1], Max(scale[mesh][2], scale[mesh][3]))

-----------------------------------------------------------------------------
\* The ancestors of a node.
RECURSIVE Ancestors(_)
Ancestors(node) == IF node = Scene THEN {} ELSE {parent[node]} \cup Ancestors(parent[node])

\* The nodes in a sequence.
Range(seq) == {seq[i] : i \in 1..Len(seq)}

\* C12: with a camera, a visible mesh with frustum culling on whose
\* ancestors are all visible is left out of the render list if and only if
\* its own sphere test fails for one of the six planes.
C12_CulledIffOutside ==
  (renderList /= <<>> /\ renderList[1].camera) =>
    \A mesh \in Meshes :
      (visible[mesh] /\ frustumCulled[mesh] /\ \A a \in Ancestors(mesh) : visible[a]) =>
        (mesh \notin Range(renderList[1].list) <=> ~Contains(CameraFrustum, mesh))

\* C13: no node that is invisible or has an invisible ancestor is in the
\* render list, and the traversal visits no descendant of an invisible node.
C13_InvisiblePruned ==
  renderList /= <<>> =>
    /\ \A node \in Range(renderList[1].list) :
         visible[node] /\ \A a \in Ancestors(node) : visible[a]
    /\ \A node \in Range(renderList[1].visited) : \A a \in Ancestors(node) : visible[a]

\* A sort of a scene in which visible mesh 2 is a child of invisible mesh 1
\* while the scene itself is visible.
C13_Witness ==
  /\ renderList /= <<>>
  /\ visible[Scene] /\ ~visible[<<"mesh", 1>>] /\ visible[<<"mesh", 2>>]
  /\ parent[<<"mesh", 2>>] = <<"mesh", 1>>
  /\ <<"mesh", 1>> \in Range(renderList[1].visited)
  /\ <<"mesh", 2>> \notin Range(renderList[1].visited)

-----------------------------------------------------------------------------
\* The last operation was render(), and what it emitted.
Rendered == calls /= <<>> /\ calls[1].ev = "render" /\ renderList /= <<>>

\* The positions in the call log of the calls ev made for object o.
At(ev, o) == {i \in 1..Len(calls) : calls[i].ev = ev /\ calls[i].o = o}

\* C16: when the shaders of a mesh of the render list fail to compile or
\* link during render(), the mesh is not drawn and every other mesh of the
\* list is compiled and drawn in this frame.
C16_FailureConfined ==
  Rendered =>
    \A mesh \in Range(renderList[1].list) :
      At("throw", mesh) /= {} =>
        /\ At("draw", mesh) = {}
        /\ \A other \in Range(renderList[1].list) \ {mesh} :
             At("compile", other) /= {} /\ At("draw", other) /= {}

\* C17: every draw call of a frame uses a program that compiled and linked:
\* a program whose compilation or linking failed is never used for a draw.
C17_FailedProgramUnused ==
  Rendered =>
    \A mesh \in Range(renderList[1].list) :
      At("draw", mesh) /= {} =>
        made[Get("_programs", material[mesh])[1]].label.linked

\* C20: a frame issues no compile and no draw call for a mesh whose
\* material is compute-only, and the mesh is not in the render list.
C20_ComputeOnlyNotRendered ==
  Rendered =>
    \A mesh \in Meshes :
      compute[material[mesh]] =>
        /\ mesh \notin Range(renderList[1].list)
        /\ At("compile", mesh) = {} /\ At("draw", mesh) = {}

\* The calls that bind the resources of a mesh: the program, the vertex
\* array and the uniforms.
Binds(mesh) ==
  At("useProgram", material[mesh]) \cup At("bindVertexArray", geometry[mesh])
    \cup At("setUniform", material[mesh])

\* The calls that apply the fixed-function state of a mesh.
StateCalls(mesh) ==
  At("setDepthTest", mesh) \cup At("setDepthMask", mesh)
    \cup At("setCullSide", mesh) \cup At("setBlending", mesh)

C15_FrameSubmitted ==
  Rendered /\ At("beginRenderPass", Scene) /= {} =>
    /\ Cardinality(At("beginRenderPass", Scene)) = 1
    /\ Cardinality(At("end", Scene)) = 1
    /\ Cardinality(At("submit", Scene)) = 1

\* C18: compute(mesh) on a mesh whose material has no compute stage throws
\* before any GPU call: no command encoder and no pass is created, nothing
\* is compiled, dispatched or submitted.
C18_ComputeRejected ==
  \A node \in Meshes :
    calls /= <<>> /\ calls[1].ev = "compute" /\ calls[1].o = node /\ ~compute[material[node]] =>
      Len(calls) = 2 /\ calls[2].ev = "throw"

-----------------------------------------------------------------------------
\* The last operation was a WebGPU frame into render target rt.
FrameTo(rt) == calls /= <<>> /\ calls[1].ev = "render" /\ calls[1].o = rt

\* C21: a frame into a render target leaves the target's dirty flag cleared,
\* and a frame that directly follows a frame into the same target, with no
\* change in between, creates no handle and releases none.
C21_BoundTargetClean ==
  [][\A rt \in RTs :
       FrameTo(rt)' =>
         /\ ~needsUpdate'[rt]
         /\ FrameTo(rt) => made' = made /\ released' = released]_vars

\* The last operation was setRenderTarget(rt) on a dirty target that had a
\* framebuffer already: the old framebuffer was deleted and a new one made.
Rebound(rt) ==
  /\ calls /= <<>> /\ calls[1].ev = "release"
  /\ \E i \in 1..Len(calls) : calls[i].ev = "drawBuffers" /\ calls[i].o = rt

\* C22: when a target that was bound before is bound again after setSize,
\* storage is allocated anew (texImage2D) for each of its color textures.
C22_ReallocatedAtNewSize ==
  \A rt \in RTs :
    Rebound(rt) =>
      \A k \in 1..RTCount :
        \E i \in 1..Len(calls) : calls[i].ev = "texImage2D" /\ calls[i].o = TexturesOf(rt)[k]

-----------------------------------------------------------------------------
\* The positions in the call log st of the calls ev made for object o.
AtIn(log, ev, o) == {i \in 1..Len(log) : log[i].ev = ev /\ log[i].o = o}

\* C23: when WebGL compile(mesh) meets an attribute with a cached buffer,
\* then, if the attribute's needsUpdate flag is set, bufferData writes that
\* same buffer, no buffer is created, the cache entry stays as it is and the
\* flag is cleared; and if the flag is not set, no bufferData is issued for
\* the attribute.
C23_RewrittenInPlace ==
  [][\A mesh \in Meshes :
       AtIn(calls', "useProgram", material[mesh]) /= {} =>
         \A k \in 1..Len(attributes[geometry[mesh]]) :
           LET a == attributes[geometry[mesh]][k].attr
           IN  Get("_buffers", a) /= <<>> =>
                 /\ caches'["_buffers"][a] = Get("_buffers", a)
                 /\ \A i \in AtIn(calls', "create", a) : calls'[i].c /= "buffer"
                 /\ ~needsUpdate'[a]
                 /\ IF needsUpdate[a]
                      THEN \E i \in AtIn(calls', "bufferData", a) : calls'[i].h = Get("_buffers", a)[1]
                      ELSE AtIn(calls', "bufferData", a) = {}]_vars

\* A compile that rewrote the cached buffer of an attribute.
C23_Witness ==
  \E mesh \in Meshes :
    /\ At("useProgram", material[mesh]) /= {}
    /\ \E k \in 1..Len(attributes[geometry[mesh]]) :
         LET a == attributes[geometry[mesh]][k].attr
         IN  /\ At("bufferData", a) /= {}
             /\ \A i \in At("create", a) : calls[i].c /= "buffer"

\* C24: after every compile(mesh) the buffer of the geometry's position
\* attribute has the size of the attribute's current data view, also when
\* the view was replaced by one of another length and no flag was set.
C24_BufferOfCurrentSize ==
  [][\A mesh \in Meshes :
       vertices' = vertices /\ AtIn(calls', "useProgram", material[mesh]) /= {} =>
         LET a == attributes[geometry[mesh]][1].attr
         IN  Len(content'[caches'["_buffers"][a][1]]) = Len(AttributeData(a))]_vars

-----------------------------------------------------------------------------
\* C25: a frame clears if and only if autoClear is on; the clear covers the
\* color, the depth and the stencil buffer together, and it comes before
\* every draw call of the frame.
C25_ClearIffAutoClear ==
  Rendered =>
    /\ autoClear <=> At("clear", Scene) /= {}
    /\ \A c \in At("clear", Scene) :
         /\ calls[c].h = GL_COLOR_BUFFER_BIT + GL_DEPTH_BUFFER_BIT + GL_STENCIL_BUFFER_BIT
         /\ \A i \in 1..Len(calls) : calls[i].ev = "draw" => c < i

\* A frame that cleared and then drew.
C25_Witness ==
  /\ Rendered /\ autoClear
  /\ At("clear", Scene) /= {}
  /\ \E i \in 1..Len(calls) : calls[i].ev = "draw"

-----------------------------------------------------------------------------
\* A step of scene.updateMatrix(): the tree and the nodes' fields are left
\* as they are and the pass is the last operation.
PassStep ==
  /\ calls' /= <<>> /\ calls'[1].ev = "updateMatrix"
  /\ parent' = parent /\ scale' = scale /\ position' = position
  /\ matrixAutoUpdate' = matrixAutoUpdate

\* C26: after a pass over a tree whose nodes all have matrixAutoUpdate set,
\* the matrix of the root is its local matrix and the matrix of every other
\* node is its local matrix multiplied by the matrix its parent has after
\* the pass.
C26_WorldFromParent ==
  [][PassStep /\ (\A n \in Nodes : matrixAutoUpdate[n]) =>
       /\ transform'[Scene] = [s |-> 1, t |-> position[Scene]]
       /\ \A mesh \in Meshes :
            transform'[mesh] =
              [s |-> scale[mesh][1] * transform'[parent[mesh]].s,
               t |-> scale[mesh][1] * transform'[parent[mesh]].t + position[mesh]]]_vars

\* After a pass the second mesh, under the scaled and moved first mesh, has
\* a matrix that differs from its local matrix.
C26_Witness ==
  /\ calls /= <<>> /\ calls[1].ev = "updateMatrix"
  /\ \A n \in Nodes : matrixAutoUpdate[n]
  /\ parent[<<"mesh", 2>>] = <<"mesh", 1>>
  /\ transform[<<"mesh", 1>>] = [s |-> 2, t |-> 1]
  /\ transform[<<"mesh", 2>>] = [s |-> 2, t |-> 2]

\* C27: a pass leaves the matrix of a node whose matrixAutoUpdate is off
\* as it was, and recomputes every child of such a node that has
\* matrixAutoUpdate set from the matrix of its parent.
C27_FrozenPropagates ==
  [][PassStep =>
       \A n \in Nodes :
         ~matrixAutoUpdate[n] =>
           /\ transform'[n] = transform[n]
           /\ \A mesh \in Meshes :
                parent[mesh] = n /\ matrixAutoUpdate[mesh] =>
                  transform'[mesh] =
                    [s |-> scale[mesh][1] * transform'[n].s,
                     t |-> scale[mesh][1] * transform'[n].t + position[mesh]]]_vars

-----------------------------------------------------------------------------
\* The last operation was handle = create(); cache.set(object, handle, ...).
JustSet == Len(calls) = 1 /\ calls[1].ev = "create"

\* C28: directly after cache.set(object, handle), with a disposer or
\* without one, cache.get(object) is that handle.
C28_GetAfterSet ==
  JustSet => Get(made[calls[1].h].c, made[calls[1].h].o) = <<calls[1].h>>

\* A set with a disposer that replaced the entry of an earlier set without
\* one.
C28_Witness ==
  /\ JustSet
  /\ made[calls[1].h].disp
  /\ \E h \in 1..(calls[1].h - 1) :
       /\ made[h].c = made[calls[1].h].c /\ made[h].o = made[calls[1].h].o
       /\ ~made[h].disp

-----------------------------------------------------------------------------
\* C30: the draw call of a mesh whose geometry has no attributes starts at
\* drawRange.start and draws drawRange.count vertices.
C30_DrawRangeWithoutData ==
  Rendered =>
    \A mesh \in Range(renderList[1].list) :
      attributes[geometry[mesh]] = <<>> /\ drawRange[geometry[mesh]].count /= <<>> =>
        \A i \in At("draw", mesh) :
          /\ calls[i].c = drawRange[geometry[mesh]].start
          /\ calls[i].h = drawRange[geometry[mesh]].count[1]

-----------------------------------------------------------------------------
\* The entries of the bind groups the last operation created.
BindGroups == {calls[i].h : i \in {j \in 1..Len(calls) : calls[j].ev = "createBindGroup"}}

-----------------------------------------------------------------------------
\* The members the vertex and the fragment stage of a material declare,
\* <<>> for none.
Declared(mat) == <<ParseShader(shader[mat]), ParseShader(fragment[mat])>>

\* The uniform buffers the last operation allocated.
NewUniformBuffers ==
  {calls[i].h : i \in {j \in 1..Len(calls) : calls[j].ev = "create" /\ calls[j].c = "uniformBuffer"}}

\* C31: when the vertex and the fragment stage declare the uniform struct
\* differently and the longer member list holds every member of the other,
\* the uniforms packed into a new uniform buffer are the members of the
\* longer declaration, in declared order.
C31_LongerDeclaration ==
  \A h \in NewUniformBuffers :
    LET mat == made[h].o
        d == Declared(mat)
    IN  \A a, b \in 1..2 :
          /\ ~compute[mat]
          /\ d[b] /= <<>>
          /\ Len(d[a]) > Len(d[b])
          /\ Range(d[b]) \subseteq Range(d[a])
          => /\ [k \in 1..Len(made[h].label.schema) |-> made[h].label.schema[k].key] = d[a]
             /\ Len(content[h])
                  = Len(Std140Alloc([k \in 1..Len(d[a]) |-> UniformOf(d[a][k], uniforms[mat])]))

\* A uniform buffer was allocated for a material whose fragment stage
\* declares the members of the vertex stage and one more.
C31_Witness ==
  \E h \in NewUniformBuffers :
    /\ shader[made[h].o] = "s1" /\ fragment[made[h].o] = "s2"
    /\ Len(made[h].label.schema) = 3

\* C32: when neither stage's member list holds every member of the other,
\* compile throws and packs no uniforms: it allocates no uniform buffer and
\* writes none.
C32_IrreconcilableRejected ==
  \A mesh \in Meshes :
    LET d == Declared(material[mesh])
    IN  /\ LastCompiled(mesh)
        /\ ~compute[material[mesh]]
        /\ d[1] /= <<>> /\ d[2] /= <<>>
        /\ ~(Range(d[1]) \subseteq Range(d[2]))
        /\ ~(Range(d[2]) \subseteq Range(d[1]))
        => /\ At("throw", mesh) /= {}
           /\ NewUniformBuffers = {}
           /\ At("writeBuffer", mesh) = {}

-----------------------------------------------------------------------------
\* The step is a compile that met the texture as a uniform.
Encounter(texture) ==
  \E i \in 1..Len(calls') : calls'[i].ev = "uniform1i" /\ calls'[i].o = texture

\* The step uploaded the image that is there to the texture.
UploadedReady(texture) ==
  \E i \in 1..Len(calls') :
    calls'[i].ev = "texImage2D" /\ calls'[i].o = texture /\ calls'[i].c = "bitmap"

\* C33: a texture that is marked and whose image is not there yet, or is a
\* video, is still marked after a compile met it, and a compile clears the
\* mark only when it uploaded an image that is there.
C33_MarkedUntilReady ==
  [][\A texture \in Texs :
       Encounter(texture) /\ needsUpdate[texture] =>
         /\ image[texture] /= "bitmap" => needsUpdate'[texture]
         /\ ~needsUpdate'[texture] => UploadedReady(texture)]_vars

-----------------------------------------------------------------------------
\* The compute pipelines created for a mesh so far.
ComputePipelines(mesh) ==
  {h \in 1..Len(made) : made[h].kind = "computePipeline" /\ made[h].o = mesh}

\* The last operation was a compute(node) that dispatched.
Computed(node) ==
  /\ calls /= <<>> /\ calls[1].ev = "compute" /\ calls[1].o = node
  /\ At("dispatchWorkgroups", node) /= {}

\* C34: a compute() of a mesh directly after a compute() of the same mesh
\* that dispatched, with nothing changed in between, creates no compute
\* pipeline.
C34_ComputePipelineOnce ==
  [][\A node \in Meshes :
       Computed(node) /\ calls'[1].ev = "compute" /\ calls'[1].o = node =>
         ComputePipelines(node)' = ComputePipelines(node)]_vars

-----------------------------------------------------------------------------
\* C35: the render pipeline a compile sets for a mesh was created from the
\* vertex and fragment sources of the material the mesh has at that
\* compile.
C35_PipelineOfCurrentMaterial ==
  \A mesh \in Meshes :
    LastCompiled(mesh) /\ ~compute[material[mesh]] =>
      \A i \in At("setPipeline", mesh) :
        /\ made[calls[i].h].label.vertex = shader[material[mesh]]
        /\ made[calls[i].h].label.fragment = fragment[material[mesh]]

-----------------------------------------------------------------------------
\* C36: at every draw call of a frame the DEPTH_TEST capability is enabled
\* if and only if the depthTest flag of the drawn mesh's material is true,
\* whatever the material's side is.
C36_DepthTestAsFlagged ==
  Rendered =>
    \A mesh \in Range(renderList[1].list) : \A i \in At("draw", mesh) :
      calls[i].gl.DEPTH_TEST = flags[material[mesh]].depthTest

\* C37: the depth mask is true at every clear of a frame.
C37_ClearWritesDepth ==
  \A i \in 1..Len(calls) : calls[i].ev = "clear" => calls[i].gl.depthMask

-----------------------------------------------------------------------------
\* The handles of the buffers cached for the attributes of geometry g.
BuffersOf(g) == {Get("_buffers", a)[1] : a \in {b \in AttrsOf(g) : Get("_buffers", b) /= <<>>}}

\* C38: Geometry.dispose() of a geometry the WebGPU renderer has compiled
\* destroys the buffers of that geometry's attributes, removes their cache
\* entries, and leaves the buffers and entries of every other attribute,
\* also when the mesh that first drew it has another geometry since.
C38_DisposeOwnBuffers ==
  [][\A g \in Geoms :
       (disposed'[g] = disposed[g] + 1 /\ Get("_geometry", g) /= <<>>) =>
         /\ \A h \in BuffersOf(g) : released'[h] = released[h] + 1
         /\ \A a \in AttrsOf(g) : caches'["_buffers"][a] = <<>>
         /\ \A a \in Attrs \ AttrsOf(g) : caches'["_buffers"][a] = caches["_buffers"][a]]_vars

-----------------------------------------------------------------------------
\* The step is a WebGLRenderer.compile: its last call sets the uniforms.
GLCompiledNow == calls' /= calls /\ calls' /= <<>> /\ calls'[Len(calls')].ev = "setUniform"

\* C39: WebGLRenderer.compile(mesh) returns the program cached for
\* mesh.material and the vertex array cached for mesh.geometry as they are
\* after the call, and neither handle has been deleted, also after the
\* mesh's material or geometry was replaced or disposed.
C39_ReturnsCurrentPair ==
  [][GLCompiledNow =>
       /\ GLCompileReturn(ProgramMesh)'.program = caches'["_programs"][material[ProgramMesh]][1]
       /\ GLCompileReturn(ProgramMesh)'.VAO = caches'["_geometry"][geometry[ProgramMesh]][1]
       /\ released'[GLCompileReturn(ProgramMesh)'.program] = 0
       /\ released'[GLCompileReturn(ProgramMesh)'.VAO] = 0]_vars

-----------------------------------------------------------------------------
\* C40: every WebGPURenderer.render() leaves renderer.samples as it was
\* before the call, also a frame into a render target and a frame that ends
\* with an exception of compile.
C40_SamplesRestored == [][samples' = samples]_vars

====
